---- MODULE Spec2Model ----
(***************************************************************************)
(* Verification model of the numerical core of space-missions:             *)
(*   - Integrator.integrate and the adaptive step controllers              *)
(*   - ForceModel (composite force evaluation)                             *)
(*   - KeplerSolver (Newton iteration, domain errors)                      *)
(*   - LambertSolver.solve, solveMultiRevolution, findOptimalTransfer      *)
(*   - OrbitalMechanicsSolver (state vector <-> orbital elements)          *)
(*   - object identity of the vectors in integrate and propagate           *)
(*   - step of each integrator on a heap of Vector3 objects                *)
(*   - rendezvousOptimization (sampling loop in double arithmetic)         *)
(*   - Integrator.integrate with its time variables in double arithmetic   *)
(*   - KeplerianPropagator.propagate and NumericalPropagator.propagate      *)
(*   - KeplerianPropagator.propagateStep                                    *)
(*   - AnalyticalPropagator.propagateWithAtmosphere                        *)
(*   - EventManager (event queue and subscribers)                          *)
(*   - CoordinateUtils.calculatePassTimes                                  *)
(*   - the private solveKeplerEquation of the propagators and of           *)
(*     OrbitalMechanicsSolver                                              *)
(* Each component is a small state machine over its own variables; a       *)
(* specification runs one component and leaves the others switched off.    *)
(***************************************************************************)
EXTENDS Integers, Sequences, FiniteSets, TLC

VARIABLES
    \* ---- Integrator (Integrator.ts, EulerIntegrator.ts, RungeKutta4.ts, Verlet.ts)
    integrator,        \* concrete class of the integrator object
    config,            \* this.config
    args,              \* arguments of the running integrate call
    pc,                \* position inside integrate
    currentTime,       \* local currentTime
    dt,                \* local dt
    states,            \* local states (each state reduced to its time field)
    stepSizes,         \* local stepSizes
    errors,            \* local errors
    stepCount,         \* this.stepCount
    totalError,        \* this.totalError
    \* ---- AdaptiveStepsize.adaptiveStep
    as_pc,             \* position inside adaptiveStep
    as_dt,             \* local dt
    as_iterations,     \* local iterations
    as_ret,            \* returned {nextStep, error}
    as_path,           \* which return statement produced as_ret
    warnings,          \* number of console.warn calls
    minStepReductions, \* this.minStepReductions
    maxStepIncrements, \* this.maxStepIncrements
    \* ---- ForceModel (forces/ForceModel.ts) and its Force objects
    forces,            \* this.forces: references to force objects, in insertion order
    enabled,           \* Force.enabled of every force object
    enabledForces,     \* this.enabledForces
    fm_ret,            \* the last call on the model and its return value
    \* ---- KeplerSolver (solvers/KeplerSolver.ts)
    kep_pc,            \* position inside the running call, or how it ended
    kep_call,          \* the call: entry point, meanAnomaly, eccentricity, tolerance
    kep_i,             \* Newton iterations performed
    kep_delta,         \* the last correction deltaE / deltaH
    \* ---- LambertSolver.solve (solvers/LambertSolver.ts)
    lam_pc,            \* position inside solve
    lam_cfg,           \* config: mu, |r1|, |r2|, cos of the angle between them, tof
    lam_i,             \* iterations of solveLambertEquation's loop
    lam_a,             \* local a of solveLambertEquation
    lam_converged,     \* the loop was left by its break
    lam_ap,            \* {a, p} returned by solveLambertEquation
    lam_ret,           \* the LambertSolution returned
    \* ---- LambertSolver.solveMultiRevolution / findOptimalTransfer
    mr_pc,             \* position inside the call
    mr_call,           \* entry point and maxRevolutions
    mr_rev,            \* loop variable rev
    mr_solutions,      \* local array solutions
    mr_ret,            \* the value returned
    \* ---- OrbitalMechanicsSolver (solvers/OrbitalMechanicsSolver.ts)
    clock,             \* the system clock read by new Date()
    oe_call,           \* the last operation called
    oe_state,          \* the state vector last converted
    oe_elements,       \* the elements stateVectorToElements returned for it
    oe_prev,           \* the call before: its state and its elements
    oe_back,           \* elementsToStateVector(oe_elements)
    \* ---- object identity in integrate and propagate
    al_pc,             \* position inside the call
    al_call,           \* the method called and the steps it will take
    al_heap,           \* the Vector3 objects allocated: their contents
    al_initial,        \* the caller's initialState: its two Vector3 references
    al_current,        \* local currentState
    al_states,         \* local array states, returned at the end
    al_snapshot,       \* contents of the input and of each state at the return
    al_touched,        \* the handles the caller has mutated since
    \* ---- step of each integrator, and Verlet.reset
    st_pc,             \* the last method called on the integrator
    st_calls,          \* number of step calls made
    st_heap,           \* the Vector3 objects allocated: their contents
    st_state,          \* the state argument of the last step call
    st_ret,            \* the state it returned
    st_before,         \* contents of the argument and of the fields at the call
    st_args,           \* RungeKuttaFehlberg.step: the derivative and deltaTime
    st_k,              \* RungeKuttaFehlberg.step: local array k
    previousAcceleration, \* Verlet: this.previousAcceleration
    \* ---- rendezvousOptimization
    rv_pc,             \* position inside the call
    rv_call,           \* timeWindow and the chaser's velocity
    rv_dt,             \* local dt
    rv_t,              \* loop variable t
    rv_count,          \* number of samples evaluated
    rv_bestSolution,   \* local bestSolution
    rv_minDeltaV,      \* local minDeltaV
    rv_seen,           \* the deltaV of the feasible samples evaluated
    rv_ret,            \* the value returned
    \* ---- Integrator.integrate, currentTime and dt as doubles
    fp_pc,             \* position inside integrate
    fp_config,         \* this.config: adaptiveStep, minStep, maxStep
    fp_args,           \* timeStep and totalTime of the call
    fp_currentTime,    \* local currentTime
    fp_dt,             \* local dt
    fp_stepCount,      \* this.stepCount
    \* ---- KeplerianPropagator.propagate
    kp_pc,             \* position inside propagate
    kp_call,           \* timeStep and duration of the call
    kp_t,              \* loop variable t
    kp_states,         \* local states (each state reduced to its time field)
    \* ---- private solveKeplerEquation of the propagators / OrbitalMechanicsSolver
    ks_pc,             \* position inside the call
    ks_solver,         \* the class whose solveKeplerEquation runs
    ks_iterations,     \* iterations performed
    ks_deltaE,         \* the last correction deltaE
    \* ---- KeplerianPropagator.propagateStep
    ps_initial,        \* the state the sequence of steps started from
    ps_deltaTime,      \* deltaTime of every step, in quarter periods
    ps_steps,          \* number of propagateStep calls made
    ps_state,          \* the state the last call returned
    \* ---- AnalyticalPropagator, perturbationType 'atmospheric'
    ap_call,           \* the last propagateWithAtmosphere call and its result
    ap_prev,           \* the call before
    \* ---- EventManager (core/events/EventManager.ts)
    eventQueue,        \* this.eventQueue
    subscribers,       \* this.subscribers: the callbacks of each event type
    em_pc,             \* position inside processEvents
    em_currentTime,    \* currentTime of the running processEvents call
    em_event,          \* triggerEvent: the event
    em_index,          \* triggerEvent: position in callbacks
    em_calls,          \* number of processEvents calls made
    em_scheduled,      \* number of scheduleEvent calls made
    em_delivered,      \* the triggerEvent calls made and the callbacks each reached
    \* ---- CoordinateUtils.calculatePassTimes (physics/coordinates/ReferenceFrames.ts)
    pt_pc,             \* position inside calculatePassTimes
    pt_call,           \* satelliteStates and minElevation of the call
    pt_index,          \* position of the for loop in satelliteStates
    inPass,            \* let inPass
    currentPass,       \* let currentPass
    passes             \* const passes

integVars == <<integrator, config, args, pc, currentTime, dt, states,
               stepSizes, errors, stepCount, totalError>>
asVars == <<as_pc, as_dt, as_iterations, as_ret, as_path, warnings,
            minStepReductions, maxStepIncrements>>
fmVars == <<forces, enabled, enabledForces, fm_ret>>
kepVars == <<kep_pc, kep_call, kep_i, kep_delta>>
lamVars == <<lam_pc, lam_cfg, lam_i, lam_a, lam_converged, lam_ap, lam_ret>>
mrVars == <<mr_pc, mr_call, mr_rev, mr_solutions, mr_ret>>
oeVars == <<clock, oe_call, oe_state, oe_elements, oe_prev, oe_back>>
alVars == <<al_pc, al_call, al_heap, al_initial, al_current, al_states,
            al_snapshot, al_touched>>
stVars == <<st_pc, st_calls, st_heap, st_state, st_ret, st_before, st_args,
            st_k, previousAcceleration>>
rvVars == <<rv_pc, rv_call, rv_dt, rv_t, rv_count, rv_bestSolution,
            rv_minDeltaV, rv_seen, rv_ret>>
fpVars == <<fp_pc, fp_config, fp_args, fp_currentTime, fp_dt, fp_stepCount>>
kpVars == <<kp_pc, kp_call, kp_t, kp_states>>
ksVars == <<ks_pc, ks_solver, ks_iterations, ks_deltaE>>
psVars == <<ps_initial, ps_deltaTime, ps_steps, ps_state>>
apVars == <<ap_call, ap_prev>>
emVars == <<eventQueue, subscribers, em_pc, em_currentTime, em_event, em_index,
            em_calls, em_scheduled, em_delivered>>
ptVars == <<pt_pc, pt_call, pt_index, inPass, currentPass, passes>>
lateVars == <<fpVars, kpVars, ksVars, psVars, apVars, emVars, ptVars>>
extVars == <<mrVars, oeVars, alVars, stVars, rvVars, lateVars>>
vars == <<integVars, asVars, fmVars, kepVars, lamVars, extVars>>

\* the variables of the other components, as seen from each component
notInteg == <<fmVars, kepVars, lamVars, extVars>>
notFm == <<integVars, asVars, kepVars, lamVars, extVars>>
notKep == <<integVars, asVars, fmVars, lamVars, extVars>>
notLam == <<integVars, asVars, fmVars, kepVars, extVars>>
coreVars == <<integVars, asVars, fmVars, kepVars, lamVars>>
notMr == <<coreVars, oeVars, alVars, stVars, rvVars, lateVars>>
notOe == <<coreVars, mrVars, alVars, stVars, rvVars, lateVars>>
notAl == <<coreVars, mrVars, oeVars, stVars, rvVars, lateVars>>
notSt == <<mrVars, oeVars, alVars, rvVars, lateVars>>
notRv == <<coreVars, mrVars, oeVars, alVars, stVars, lateVars>>
earlyVars == <<coreVars, mrVars, oeVars, alVars, stVars, rvVars>>
notFp == <<earlyVars, kpVars, ksVars, psVars, apVars, emVars, ptVars>>
notKp == <<earlyVars, fpVars, ksVars, psVars, apVars, emVars, ptVars>>
notKs == <<earlyVars, fpVars, kpVars, psVars, apVars, emVars, ptVars>>
notPs == <<earlyVars, fpVars, kpVars, ksVars, apVars, emVars, ptVars>>
notAp == <<earlyVars, fpVars, kpVars, ksVars, psVars, emVars, ptVars>>
notEm == <<earlyVars, fpVars, kpVars, ksVars, psVars, apVars, ptVars>>
notPt == <<earlyVars, fpVars, kpVars, ksVars, psVars, apVars, emVars>>

(***************************************************************************)
(* Numbers.  A double is modelled by an exact rational <<n, d>> in lowest  *)
(* terms with d >= 0; <<1, 0>> is +Infinity and <<0, 0>> is NaN.           *)
(***************************************************************************)
RECURSIVE GCD(_, _)
GCD(a, b) == IF b = 0 THEN a ELSE GCD(b, a % b)

Abs(x) == IF x < 0 THEN -x ELSE x

Norm(n, d) ==
    LET g == GCD(Abs(n), Abs(d))
        sign == IF d < 0 THEN -1 ELSE 1
    IN  IF g = 0 THEN <<0, 0>> ELSE <<(sign * n) \div g, (sign * d) \div g>>

R(n) == <<n, 1>>
Frac(n, d) == Norm(n, d)
Infinity == <<1, 0>>
NaN == <<0, 0>>
IsNaN(a) == a = <<0, 0>>
isFinite(a) == a[2] # 0
RAbs(a) == <<Abs(a[1]), a[2]>>

\* sums and products cancel common factors first, so that intermediate
\* integers stay small
RAdd(a, b) ==
    LET g == GCD(a[2], b[2])
    IN  IF g = 0 THEN Norm(a[1] * b[2] + b[1] * a[2], a[2] * b[2])
        ELSE Norm(a[1] * (b[2] \div g) + b[1] * (a[2] \div g),
                  (a[2] \div g) * b[2])
RSub(a, b) == RAdd(a, <<-b[1], b[2]>>)
RMul(a, b) ==
    LET g1 == GCD(Abs(a[1]), b[2])
        g2 == GCD(Abs(b[1]), a[2])
    IN  IF g1 = 0 \/ g2 = 0 THEN Norm(a[1] * b[1], a[2] * b[2])
        ELSE Norm((a[1] \div g1) * (b[1] \div g2),
                  (a[2] \div g2) * (b[2] \div g1))
RDiv(a, b) == Norm(a[1] * b[2], a[2] * b[1])

\* comparisons are false as soon as one side is NaN
RLt(a, b) == ~IsNaN(a) /\ ~IsNaN(b) /\ a[1] * b[2] < b[1] * a[2]
RLe(a, b) == ~IsNaN(a) /\ ~IsNaN(b) /\ a[1] * b[2] <= b[1] * a[2]
RGt(a, b) == RLt(b, a)

MathMax(a, b) == IF IsNaN(a) \/ IsNaN(b) THEN <<0, 0>> ELSE IF RLt(a, b) THEN b ELSE a
MathMin(a, b) == IF IsNaN(a) \/ IsNaN(b) THEN <<0, 0>> ELSE IF RLt(b, a) THEN b ELSE a

RECURSIVE IPow(_, _)
IPow(r, k) == IF k = 0 THEN 1 ELSE r * IPow(r, k - 1)

\* exact k-th root of a perfect k-th power
IRoot(n, k) == CHOOSE r \in 0..n : IPow(r, k) = n

\* Math.pow(x, 1/k) on the ratios the model feeds it (perfect k-th powers)
MathPowRoot(x, k) == Norm(IRoot(x[1], k), IRoot(x[2], k))


(***************************************************************************)
(* Bounds of the model.                                                    *)
(***************************************************************************)
MaxTotalTime == 4
MaxTimeStep == 3
MaxInitialTime == 5
MaxDeltaTime == 2048

\* AdaptiveStepsize.adaptiveStep: const maxIterations = 10
maxIterations == 10

Classes == {"EulerIntegrator", "RungeKutta4", "Verlet", "RungeKuttaFehlberg",
            "AdaptiveStepsize"}

\* errorTolerance is the unit of every error estimate: tolerance = 1
Tolerance == R(1)

\* calculateError results (in units of the tolerance) a derivative can
\* produce; the ratios are chosen so that every root the controllers take
\* of tolerance/error is exact
ErrLevels == {R(0), Frac(1, 1024), Frac(1, 32), R(1), R(16)}

\* RungeKutta4.adaptiveStep divides calculateError by 15
RawErrors(class) ==
    IF class = "RungeKutta4" THEN {RMul(R(15), e) : e \in ErrLevels}
    ELSE ErrLevels

\* minStep / maxStep pairs of the configurations explored
StepLimits == {<<R(1), R(1)>>, <<R(1), R(4)>>}

\* constructor: RungeKuttaFehlberg and AdaptiveStepsize force adaptiveStep
AdaptiveFlags(class) ==
    IF class \in {"RungeKuttaFehlberg", "AdaptiveStepsize"} THEN {TRUE}
    ELSE {FALSE, TRUE}

Configs(class) ==
    {[adaptiveStep |-> a, minStep |-> l[1], maxStep |-> l[2],
      errorTolerance |-> Tolerance] : a \in AdaptiveFlags(class), l \in StepLimits}

NoArgs == [initialTime |-> 0, timeStep |-> 0, totalTime |-> 0]
NoRet == [nextStep |-> R(0), error |-> R(0)]

(***************************************************************************)
(* Built-in adaptive steps: each returns its state unconditionally,        *)
(* together with the proposed next step and the error estimate.            *)
(***************************************************************************)
ClampStep(cfg, step) == MathMax(cfg.minStep, MathMin(step, cfg.maxStep))

Euler_adaptiveStep(cfg, deltaTime, raw) ==
    LET error == raw
        nextStep ==
            IF RGt(error, cfg.errorTolerance)
            THEN RMul(RMul(deltaTime, Frac(8, 10)),
                      MathPowRoot(RDiv(cfg.errorTolerance, error), 2))
            ELSE IF RLt(error, RDiv(cfg.errorTolerance, R(10)))
            THEN RMul(deltaTime, Frac(12, 10))
            ELSE deltaTime
    IN  [nextStep |-> ClampStep(cfg, nextStep), error |-> error]

RK_nextStep(cfg, deltaTime, error, safetyFactor) ==
    IF RGt(error, cfg.errorTolerance)
    THEN RMul(RMul(deltaTime, safetyFactor),
              MathPowRoot(RDiv(cfg.errorTolerance, error), 4))
    ELSE IF RLt(error, RDiv(cfg.errorTolerance, R(32)))
    THEN RMul(RMul(deltaTime, safetyFactor),
              MathPowRoot(RDiv(cfg.errorTolerance, error), 5))
    ELSE deltaTime

RK4_adaptiveStep(cfg, deltaTime, raw) ==
    LET error == RDiv(raw, R(15))
    IN  [nextStep |-> ClampStep(cfg, RK_nextStep(cfg, deltaTime, error, Frac(9, 10))),
         error |-> error]

RKF45_adaptiveStep(cfg, deltaTime, raw) ==
    LET error == raw
    IN  [nextStep |-> ClampStep(cfg, RK_nextStep(cfg, deltaTime, error, Frac(84, 100))),
         error |-> error]

Verlet_adaptiveStep(cfg, deltaTime, raw) ==
    [nextStep |-> deltaTime, error |-> raw]

adaptiveStep(class, cfg, deltaTime, raw) ==
    CASE class = "EulerIntegrator" -> Euler_adaptiveStep(cfg, deltaTime, raw)
      [] class = "RungeKutta4" -> RK4_adaptiveStep(cfg, deltaTime, raw)
      [] class = "RungeKuttaFehlberg" -> RKF45_adaptiveStep(cfg, deltaTime, raw)
      [] class = "Verlet" -> Verlet_adaptiveStep(cfg, deltaTime, raw)

(***************************************************************************)
(* Integrator.integrate                                                    *)
(***************************************************************************)
\* lines 32-44: locals initialised, counters reset, initial state pushed
Integrate_Call(t0, timeStep, totalTime) ==
    /\ pc = "idle"
    /\ args' = [initialTime |-> t0, timeStep |-> timeStep, totalTime |-> totalTime]
    /\ currentTime' = R(0)
    /\ dt' = R(timeStep)
    /\ stepCount' = 0
    /\ totalError' = R(0)
    /\ states' = <<[time |-> R(t0)]>>
    /\ stepSizes' = <<>>
    /\ errors' = <<>>
    /\ pc' = "loop"
    /\ UNCHANGED <<integrator, config, asVars, notInteg>>

\* lines 48-50: the step is cut so as not to pass the end
ClampToEnd(step, now, totalTime) ==
    IF RGt(RAdd(now, step), totalTime) THEN RSub(totalTime, now) ELSE step

\* lines 66-74 after the step of size `used` produced the new state
Advance(used, error) ==
    /\ currentTime' = RAdd(currentTime, used)
    /\ states' = Append(states, [time |-> RAdd(currentTime, used)])
    /\ stepSizes' = Append(stepSizes, used)
    /\ errors' = Append(errors, error)
    /\ stepCount' = stepCount + 1
    /\ dt' = MathMax(config.minStep, MathMin(used, config.maxStep))

\* one loop iteration with config.adaptiveStep = false
Integrate_Fixed ==
    /\ pc = "loop"
    /\ RLt(currentTime, R(args.totalTime))
    /\ ~config.adaptiveStep
    /\ Advance(ClampToEnd(dt, currentTime, R(args.totalTime)), R(0))
    /\ UNCHANGED <<integrator, config, args, pc, totalError, asVars, notInteg>>

\* one loop iteration with config.adaptiveStep = true, built-in controllers
Integrate_Adaptive ==
    /\ pc = "loop"
    /\ RLt(currentTime, R(args.totalTime))
    /\ config.adaptiveStep
    /\ integrator # "AdaptiveStepsize"
    /\ \E raw \in RawErrors(integrator) :
          LET adaptiveResult ==
                  adaptiveStep(integrator, config,
                               ClampToEnd(dt, currentTime, R(args.totalTime)), raw)
          IN  /\ totalError' = RAdd(totalError, adaptiveResult.error)
              /\ Advance(adaptiveResult.nextStep, adaptiveResult.error)
    /\ UNCHANGED <<integrator, config, args, pc, asVars, notInteg>>

\* loop condition false: return states
Integrate_Return ==
    /\ pc = "loop"
    /\ ~RLt(currentTime, R(args.totalTime))
    /\ pc' = "done"
    /\ UNCHANGED <<integrator, config, args, currentTime, dt, states, stepSizes,
                   errors, stepCount, totalError, asVars, notInteg>>

(***************************************************************************)
(* AdaptiveStepsize.adaptiveStep: trial loop with step halving, then the   *)
(* minimum-step fallback.  Each trial's error estimate (tryStep) is an     *)
(* input: it depends on the caller's derivative.                           *)
(***************************************************************************)
\* calculateNextStep(currentStep, error)
calculateNextStep(cfg, currentStep, error) ==
    IF error = R(0)
    THEN RMul(currentStep, R(2))
    ELSE LET optimalStep ==
                 RMul(RMul(currentStep, Frac(9, 10)),
                      MathPowRoot(RDiv(cfg.errorTolerance, error), 5))
         IN  MathMax(RMul(Frac(1, 10), currentStep),
                     MathMin(RMul(R(5), currentStep), optimalStep))

\* lines 220-228: limit abrupt changes of the step
LimitChange(step, nextStep) ==
    LET changeRatio == RDiv(nextStep, step)
    IN  IF RGt(changeRatio, R(2)) THEN RMul(step, R(2))
        ELSE IF RLt(changeRatio, Frac(1, 2)) THEN RMul(step, Frac(1, 2))
        ELSE nextStep

\* the proposal returned as computed, without the limits
AcceptedNextStep_Unclamped(cfg, nextStep) == nextStep

\* line 232: the accepted step's proposal is brought into [minStep, maxStep]
AcceptedNextStep(cfg, nextStep) ==
    MathMax(cfg.minStep, MathMin(nextStep, cfg.maxStep))

\* line 252: the fallback proposes minStep
FallbackNextStep(cfg) == cfg.minStep

\* line 216: acceptance test of a trial
Accepts(cfg, error) == RLe(error, cfg.errorTolerance)

\* entry of adaptiveStep (lines 208-210)
AS_Enter(deltaTime) ==
    /\ as_pc' = "loop"
    /\ as_dt' = deltaTime
    /\ as_iterations' = 0
    /\ as_ret' = NoRet
    /\ as_path' = "none"

\* a trial that is accepted (lines 214-235)
AS_Accept ==
    /\ as_pc = "loop"
    /\ as_iterations < maxIterations
    /\ \E error \in ErrLevels :
          /\ Accepts(config, error)
          /\ LET proposed == calculateNextStep(config, as_dt, error)
                 changeRatio == RDiv(proposed, as_dt)
             IN  /\ as_ret' = [nextStep |-> AcceptedNextStep(config,
                                                LimitChange(as_dt, proposed)),
                               error |-> error]
                 /\ maxStepIncrements' =
                        IF RGt(changeRatio, R(2)) THEN maxStepIncrements + 1
                        ELSE maxStepIncrements
                 /\ minStepReductions' =
                        IF ~RGt(changeRatio, R(2)) /\ RLt(changeRatio, Frac(1, 2))
                        THEN minStepReductions + 1 ELSE minStepReductions
    /\ as_pc' = "returned"
    /\ as_path' = "accepted"
    /\ UNCHANGED <<as_dt, as_iterations, warnings, integVars, notInteg>>

\* a trial that is rejected (lines 214-216, 237-246): halve and retry, or
\* leave the loop
AS_Reject ==
    /\ as_pc = "loop"
    /\ as_iterations < maxIterations
    /\ \E error \in ErrLevels : ~Accepts(config, error)
    /\ as_dt' = RMul(as_dt, Frac(1, 2))
    /\ as_iterations' = as_iterations + 1
    /\ minStepReductions' = minStepReductions + 1
    /\ IF RLt(RMul(as_dt, Frac(1, 2)), config.minStep)
       THEN /\ warnings' = warnings + 1
            /\ as_pc' = "fallback"
       ELSE /\ warnings' = warnings
            /\ as_pc' = IF as_iterations + 1 < maxIterations THEN "loop"
                        ELSE "fallback"
    /\ UNCHANGED <<as_ret, as_path, maxStepIncrements, integVars, notInteg>>

\* after the loop (lines 248-254): one step of size minStep, whatever its error
AS_Fallback ==
    /\ as_pc = "fallback"
    /\ \E error \in ErrLevels :
          as_ret' = [nextStep |-> FallbackNextStep(config), error |-> error]
    /\ as_pc' = "returned"
    /\ as_path' = "fallback"
    /\ UNCHANGED <<as_dt, as_iterations, warnings, minStepReductions,
                   maxStepIncrements, integVars, notInteg>>

\* a direct call of adaptiveStep(state, derivative, deltaTime)
AS_Call ==
    /\ pc = "direct"
    /\ as_pc = "idle"
    /\ \E deltaTime \in {1, 3, 64, MaxDeltaTime} : AS_Enter(R(deltaTime))
    /\ UNCHANGED <<warnings, minStepReductions, maxStepIncrements, integVars, notInteg>>

\* integrate, loop iteration of the wrapper: lines 48-56, call adaptiveStep
Integrate_WrapperCall ==
    /\ pc = "loop"
    /\ RLt(currentTime, R(args.totalTime))
    /\ config.adaptiveStep
    /\ integrator = "AdaptiveStepsize"
    /\ dt' = ClampToEnd(dt, currentTime, R(args.totalTime))
    /\ AS_Enter(ClampToEnd(dt, currentTime, R(args.totalTime)))
    /\ pc' = "adaptiveStep"
    /\ UNCHANGED <<integrator, config, args, currentTime, states, stepSizes,
                   errors, stepCount, totalError, warnings, minStepReductions,
                   maxStepIncrements, notInteg>>

\* integrate, loop iteration of the wrapper: lines 57-74 with the result
Integrate_WrapperReturn ==
    /\ pc = "adaptiveStep"
    /\ as_pc = "returned"
    /\ totalError' = RAdd(totalError, as_ret.error)
    /\ Advance(as_ret.nextStep, as_ret.error)
    /\ pc' = "loop"
    /\ as_pc' = "idle"
    /\ UNCHANGED <<integrator, config, args, as_dt, as_iterations, as_ret,
                   as_path, warnings, minStepReductions, maxStepIncrements,
                   notInteg>>

(***************************************************************************)
(* ForceModel and its Force objects.  A query point is reduced to its      *)
(* altitude position.length() - 6378.137 (km), the only quantity the       *)
(* applicability gates of the modelled forces read.                        *)
(***************************************************************************)
MaxForces == 3

\* AtmosphericDrag.isApplicable: altitude < 1000
DragMaxAltitude == 1000
\* ThirdBodyPerturbation.isApplicable: altitude > 1000
ThirdBodyMinAltitude == 1000

\* the force objects a caller may add; acc is the vector calculateAcceleration
\* returns for the object (integer components, integer Euclidean length)
ForceObjects == <<
    [class |-> "GravitationalForce", name |-> "Gravitational", acc |-> <<-3, -4, 0>>],
    [class |-> "AtmosphericDrag", name |-> "Atmospheric Drag", acc |-> <<0, 0, -2>>],
    [class |-> "AtmosphericDrag", name |-> "Atmospheric Drag", acc |-> <<1, 2, 2>>],
    [class |-> "ThirdBodyPerturbation", name |-> "Third Body: Moon", acc |-> <<2, 3, 6>>],
    [class |-> "J2Perturbation", name |-> "J2 Perturbation", acc |-> <<0, 2, -1>>],
    [class |-> "J3J4Perturbation", name |-> "J3J4 Perturbation", acc |-> <<0, 0, 1>>],
    [class |-> "SolarRadiationPressure", name |-> "Solar Radiation Pressure",
     acc |-> <<1, 0, 0>>],
    [class |-> "SolarRadiationPressure", name |-> "Solar Radiation Pressure",
     acc |-> <<2, 0, 0>>],
    [class |-> "GravitationalForce", name |-> "Gravitational", acc |-> <<-2, -4, 1>>] >>

\* the objects the long-lived model of SpecForce is built from
BasicForceIds == 1..4
ForceIds == DOMAIN ForceObjects
ForceNames == {ForceObjects[id].name : id \in BasicForceIds} \cup {"Unknown"}

\* config.thirdBodies of a GravitationalForce (the one of createGEOModel has
\* Moon and Sun): the part of its acceleration that the third bodies add
\* (part_005 lines 33-41)
ThirdBodiesInside(id) == IF id = 9 THEN <<1, 0, 1>> ELSE <<0, 0, 0>>
\* config.area / config.mass of a SolarRadiationPressure, in m2/kg
AreaToMass(id) == IF id = 7 THEN Frac(1, 100) ELSE Frac(1, 2000)
J2MaxAltitude == 100000
J3J4MaxAltitude == 50000
GateAltitudes == {400, 1000, 20000, 50000, 60000, 100000, 200000}
QueryAltitudes == {400, 1000, 20000}

NoCall == [op |-> "none"]

\* THREE.Vector3
Vector3Zero == <<0, 0, 0>>
VAdd(a, b) == <<a[1] + b[1], a[2] + b[2], a[3] + b[3]>>
VLength(a) == IRoot(a[1] * a[1] + a[2] * a[2] + a[3] * a[3], 2)

\* Force.isApplicable and its overrides
isApplicable(id, altitude) ==
    CASE ForceObjects[id].class = "AtmosphericDrag" ->
             enabled[id] /\ altitude < DragMaxAltitude
      [] ForceObjects[id].class = "ThirdBodyPerturbation" ->
             enabled[id] /\ altitude > ThirdBodyMinAltitude
      [] ForceObjects[id].class = "J2Perturbation" ->
             enabled[id] /\ altitude < J2MaxAltitude
      [] ForceObjects[id].class = "J3J4Perturbation" ->
             enabled[id] /\ altitude < J3J4MaxAltitude
      [] ForceObjects[id].class = "SolarRadiationPressure" ->
             enabled[id] /\ RGt(AreaToMass(id), Frac(1, 1000))
      [] OTHER -> enabled[id]

calculateAcceleration(id, altitude) == ForceObjects[id].acc

\* the loop test without the applicability gate
TotalTakes_EnabledOnly(id, altitude) == enabled[id]

\* line 40: the test of calculateTotalAcceleration's loop
TotalTakes(id, altitude) == enabled[id] /\ isApplicable(id, altitude)

\* line 83: the test of analyzeForceContributions' loop
AnalysisTakes(id, altitude) == enabled[id] /\ isApplicable(id, altitude)

\* lines 37-46: the loop over this.forces from index i on
RECURSIVE TotalLoop(_, _, _)
TotalLoop(i, totalAcceleration, altitude) ==
    IF i > Len(forces) THEN totalAcceleration
    ELSE TotalLoop(i + 1,
                   IF TotalTakes(forces[i], altitude)
                   THEN VAdd(totalAcceleration,
                             calculateAcceleration(forces[i], altitude))
                   ELSE totalAcceleration,
                   altitude)

\* lines 80-89: contributions[force.name] = acceleration.length()
RECURSIVE AnalysisLoop(_, _, _)
AnalysisLoop(i, contributions, altitude) ==
    IF i > Len(forces) THEN contributions
    ELSE AnalysisLoop(i + 1,
                      IF AnalysisTakes(forces[i], altitude)
                      THEN [n \in DOMAIN contributions \cup {ForceObjects[forces[i]].name} |->
                               IF n = ForceObjects[forces[i]].name
                               THEN VLength(calculateAcceleration(forces[i], altitude))
                               ELSE contributions[n]]
                      ELSE contributions,
                      altitude)

addForce(id) ==
    /\ Len(forces) < MaxForces
    /\ forces' = Append(forces, id)
    /\ enabledForces' = IF enabled[id]
                        THEN enabledForces \cup {ForceObjects[id].name}
                        ELSE enabledForces
    /\ fm_ret' = NoCall
    /\ UNCHANGED <<enabled, notFm>>

calculateTotalAcceleration(altitude) ==
    /\ fm_ret' = [op |-> "calculateTotalAcceleration", altitude |-> altitude,
                  value |-> TotalLoop(1, Vector3Zero, altitude)]
    /\ UNCHANGED <<forces, enabled, enabledForces, notFm>>

\* line 53: this.forces.find(f => f.name === forceName), 0 when there is none
FindForce(forceName) ==
    LET found == {i \in 1..Len(forces) : ForceObjects[forces[i]].name = forceName}
    IN  IF found = {} THEN 0 ELSE forces[CHOOSE i \in found : \A j \in found : i <= j]

setEnabled_Flip(id, b) == [enabled EXCEPT ![id] = ~enabled[id]]
\* Force.setEnabled: this.enabled = enabled; the flags after the call
setEnabled_Flags(id, b) == [enabled EXCEPT ![id] = b]

\* lines 54-61: the flags and the set of names after toggleForce
toggleForce_Flags(forceName, b) ==
    IF FindForce(forceName) = 0 THEN enabled
    ELSE setEnabled_Flags(FindForce(forceName), b)
toggleForce_Names(forceName, b) ==
    IF FindForce(forceName) = 0 THEN enabledForces
    ELSE IF b THEN enabledForces \cup {forceName} ELSE enabledForces \ {forceName}

toggleForce(forceName, b) ==
    /\ enabled' = toggleForce_Flags(forceName, b)
    /\ enabledForces' = toggleForce_Names(forceName, b)
    /\ fm_ret' = [op |-> "toggleForce", forceName |-> forceName, enabled |-> b]
    /\ UNCHANGED <<forces, notFm>>

\* Force.setEnabled called on a force object directly
setEnabled(id, b) ==
    /\ enabled' = setEnabled_Flags(id, b)
    /\ fm_ret' = [op |-> "setEnabled", force |-> id, enabled |-> b]
    /\ UNCHANGED <<forces, enabledForces, notFm>>

\* lines 67-69: Array.from(this.enabledForces), as a set of names
getActiveForces ==
    /\ fm_ret' = [op |-> "getActiveForces", value |-> enabledForces]
    /\ UNCHANGED <<forces, enabled, enabledForces, notFm>>

analyzeForceContributions(altitude) ==
    /\ fm_ret' = [op |-> "analyzeForceContributions", altitude |-> altitude,
                  value |-> AnalysisLoop(1, <<>>, altitude)]
    /\ UNCHANGED <<forces, enabled, enabledForces, notFm>>

FmOff ==
    /\ forces = <<>>
    /\ enabled = [id \in ForceIds |-> TRUE]
    /\ enabledForces = {}
    /\ fm_ret = NoCall

(***************************************************************************)
(* KeplerSolver: the Newton loops of solveKeplerEquation and               *)
(* solveKeplerHyperbolic and the entry points that reach them.  The value  *)
(* of each Newton correction depends on transcendental functions of the    *)
(* inputs; it is an input of the iteration step, in units of the default   *)
(* tolerance.                                                              *)
(***************************************************************************)
\* KeplerSolver.MAX_ITERATIONS
MAX_ITERATIONS == 50

KeplerOps == {"solveKeplerEquation", "solveKeplerHyperbolic", "meanToTrueAnomaly",
              "propagateKepler"}
Eccentricities == {R(0), Frac(1, 2), R(1), Frac(11, 10), R(2), NaN}
MeanAnomalies == {R(1), R(-7), NaN, Infinity}
\* tolerances, in units of DEFAULT_TOLERANCE
KeplerTolerances == {R(1), R(2), NaN}
Corrections == {R(0), Frac(1, 2), Frac(-1, 2), R(1), R(2), R(-2), NaN, Infinity}

NoKeplerCall == [op |-> "none", meanAnomaly |-> R(0), eccentricity |-> R(0),
                 tolerance |-> R(1), solver |-> "none"]

HyperbolicDomainError_Strict(eccentricity) == RLt(eccentricity, R(1))
\* lines 50-52: the domain test of solveKeplerHyperbolic
HyperbolicDomainError(eccentricity) == RLe(eccentricity, R(1))

\* lines 140-146: the branch meanToTrueAnomaly takes
meanToTrueAnomaly_Solver(eccentricity) ==
    IF RLt(eccentricity, R(1)) THEN "solveKeplerEquation" ELSE "solveKeplerHyperbolic"

\* the solver an entry point runs (propagateKepler goes through
\* meanToTrueAnomaly, line 184)
SolverOf(op, eccentricity) ==
    IF op \in {"meanToTrueAnomaly", "propagateKepler"}
    THEN meanToTrueAnomaly_Solver(eccentricity)
    ELSE op

\* normalizeAngle adds or subtracts 2*pi until the angle is in [0, 2*pi):
\* it returns for finite angles and NaN and never ends for an infinite one
normalizeAngle_Returns(angle) == isFinite(angle) \/ IsNaN(angle)

Converged_OrEqual(delta, tolerance) == RLe(RAbs(delta), tolerance)
\* lines 34, 66: the convergence test on the correction
Converged(delta, tolerance) == RLt(RAbs(delta), tolerance)

\* a call, up to the first Newton iteration
Kepler_Call ==
    /\ kep_pc = "idle"
    /\ \E op \in KeplerOps, M \in MeanAnomalies, e \in Eccentricities,
          tol \in KeplerTolerances :
          LET solver == SolverOf(op, e)
          IN  /\ kep_call' = [op |-> op, meanAnomaly |-> M, eccentricity |-> e,
                              tolerance |-> tol, solver |-> solver]
              /\ kep_pc' =
                    IF solver = "solveKeplerHyperbolic"
                    THEN IF HyperbolicDomainError(e) THEN "InvalidDomain" ELSE "newton"
                    ELSE IF normalizeAngle_Returns(M) THEN "newton"
                    ELSE "normalizeAngle"
    /\ kep_i' = 0
    /\ kep_delta' = R(0)
    /\ UNCHANGED notKep

\* one iteration of the for loop (lines 27-37, 59-69)
Kepler_Newton ==
    /\ kep_pc = "newton"
    /\ kep_i < MAX_ITERATIONS
    /\ \E delta \in Corrections :
          /\ kep_delta' = delta
          /\ kep_pc' = IF Converged(delta, kep_call.tolerance) THEN "returned"
                       ELSE "newton"
    /\ kep_i' = kep_i + 1
    /\ UNCHANGED <<kep_call, notKep>>

\* the loop ran out (lines 39, 71): throw
Kepler_Throw ==
    /\ kep_pc = "newton"
    /\ ~(kep_i < MAX_ITERATIONS)
    /\ kep_pc' = "NonConvergence"
    /\ UNCHANGED <<kep_call, kep_i, kep_delta, notKep>>

KepOff ==
    /\ kep_pc = "off"
    /\ kep_call = NoKeplerCall
    /\ kep_i = 0
    /\ kep_delta = R(0)

(***************************************************************************)
(* LambertSolver.solve.  The geometry is given by |r1|, |r2| and the       *)
(* cosine of the angle between r1 and r2.  The Newton iterate a of         *)
(* solveLambertEquation and the velocities are transcendental in the       *)
(* inputs: the iterate moves among representative values, finite or not.   *)
(***************************************************************************)
\* LambertSolver.MAX_ITERATIONS
LAMBERT_MAX_ITERATIONS == 100
\* generateTrajectory: steps = 100
TrajectorySteps == 100

LambertGeometries ==
    {[r1Mag |-> R(5), r2Mag |-> R(5), cosDeltaNu |-> Frac(7, 25)],
     [r1Mag |-> R(2), r2Mag |-> R(2), cosDeltaNu |-> R(1)],
     [r1Mag |-> R(13), r2Mag |-> R(13), cosDeltaNu |-> Frac(119, 169)]}
LambertMus == {R(2), R(8)}
LambertTofs == {R(0), R(5), R(10), R(30), NaN}
LambertIterates == {R(4), R(-4), NaN, Infinity}
LambertParameters == {R(3), NaN, Infinity}
\* a Vector3 with double components
RVector(v) == <<R(v[1]), R(v[2]), R(v[3])>>
NaNVector == <<NaN, NaN, NaN>>
\* Vector3.length()
RVLength(v) ==
    IF \E k \in 1..3 : ~isFinite(v[k]) THEN NaN
    ELSE R(VLength(<<v[1][1], v[2][1], v[3][1]>>))
\* calculateVelocities: finite velocities, or NaN components when it divides
\* by sin(pi - deltaNu) = 0 or by p = 0
LambertVelocities == {RVector(<<3, 4, 0>>), RVector(<<0, -5, 12>>), NaNVector}

NoLambertConfig == [mu |-> R(1), r1Mag |-> R(0), r2Mag |-> R(0),
                    cosDeltaNu |-> R(0), tof |-> R(0)]
NoAP == [a |-> R(0), p |-> R(0), solved |-> FALSE]

\* lines 43-49, 56-62, the solution returned when the transfer is infeasible
InfeasibleSolution ==
    [v1 |-> RVector(Vector3Zero), v2 |-> RVector(Vector3Zero), deltaV |-> Infinity,
     trajectory |-> 0, feasible |-> FALSE]

MathSqrt(x) == IF IsNaN(x) \/ x[1] < 0 THEN NaN ELSE MathPowRoot(x, 2)

\* line 36: chord
Chord(g) ==
    MathSqrt(RSub(RAdd(RMul(g.r1Mag, g.r1Mag), RMul(g.r2Mag, g.r2Mag)),
                  RMul(RMul(R(2), RMul(g.r1Mag, g.r2Mag)), g.cosDeltaNu)))

\* line 37: half perimeter
SemiPerimeter(g) == RDiv(RAdd(RAdd(g.r1Mag, g.r2Mag), Chord(g)), R(2))

\* calculateMinimumTOF(s, c, mu)
calculateMinimumTOF(s, c, mu) ==
    RMul(RMul(Frac(1, 3), MathSqrt(RDiv(R(2), mu))),
         RSub(RMul(s, MathSqrt(RMul(R(2), s))),
              RMul(RSub(s, c), MathSqrt(RMul(R(2), RSub(s, c))))))

TofMin(cfg) == calculateMinimumTOF(SemiPerimeter(cfg), Chord(cfg), cfg.mu)

NotFinite_AOnly(a, p) == ~isFinite(a)
\* line 55: the test after solveLambertEquation
NotFinite(a, p) == ~isFinite(a) \/ ~isFinite(p)

\* lines 15-50: geometry, minimum time of flight, early return
Lambert_Call ==
    /\ lam_pc = "idle"
    /\ \E g \in LambertGeometries, mu \in LambertMus, tof \in LambertTofs :
          LET cfg == [mu |-> mu, r1Mag |-> g.r1Mag, r2Mag |-> g.r2Mag,
                      cosDeltaNu |-> g.cosDeltaNu, tof |-> tof]
          IN  /\ lam_cfg' = cfg
              /\ IF RLt(tof, TofMin(cfg))
                 THEN /\ lam_ret' = InfeasibleSolution
                      /\ lam_pc' = "returned"
                      /\ lam_a' = lam_a
                 ELSE /\ lam_ret' = lam_ret
                      /\ lam_pc' = "newton"
                      /\ lam_a' = RDiv(SemiPerimeter(cfg), R(2))
    /\ lam_i' = 0
    /\ lam_converged' = FALSE
    /\ lam_ap' = NoAP
    /\ UNCHANGED notLam

\* one iteration of solveLambertEquation's loop (lines 102-130): either the
\* time-of-flight error is below the tolerance (break), which needs a finite
\* a and tof, or a is corrected; a non-finite a makes the error NaN and the
\* corrected a NaN
Lambert_Newton ==
    /\ lam_pc = "newton"
    /\ lam_i < LAMBERT_MAX_ITERATIONS
    /\ ~lam_converged
    /\ \/ /\ isFinite(lam_a)
          /\ isFinite(lam_cfg.tof)
          /\ lam_converged' = TRUE
          /\ UNCHANGED <<lam_a, lam_i>>
       \/ /\ \E a \in LambertIterates \cup {lam_a} :
                /\ (isFinite(lam_a) /\ isFinite(lam_cfg.tof)) \/ a = NaN
                /\ lam_a' = a
          /\ lam_i' = lam_i + 1
          /\ UNCHANGED lam_converged
    /\ UNCHANGED <<lam_pc, lam_cfg, lam_ap, lam_ret, notLam>>

\* after the loop (lines 132-135): p = 4 a (s - r1)(s - r2) sin^2(alpha/2) / c^2;
\* a non-finite a gives NaN, a zero chord divides by zero
Lambert_Parameter ==
    /\ lam_pc = "newton"
    /\ lam_converged \/ ~(lam_i < LAMBERT_MAX_ITERATIONS)
    /\ \E p \in LambertParameters :
          /\ isFinite(lam_a) \/ p = NaN
          /\ Chord(lam_cfg) # R(0) \/ ~isFinite(p)
          /\ lam_ap' = [a |-> lam_a, p |-> p, solved |-> TRUE]
    /\ lam_pc' = "solved"
    /\ UNCHANGED <<lam_cfg, lam_i, lam_a, lam_converged, lam_ret, notLam>>

\* lines 55-80: the sentinel, or velocities, deltaV and trajectory
Lambert_Return ==
    /\ lam_pc = "solved"
    /\ IF NotFinite(lam_ap.a, lam_ap.p)
       THEN lam_ret' = InfeasibleSolution
       ELSE \E v1 \in LambertVelocities, v2 \in LambertVelocities :
               lam_ret' = [v1 |-> v1, v2 |-> v2,
                           deltaV |-> RAdd(RVLength(v1), RVLength(v2)),
                           trajectory |-> TrajectorySteps + 1, feasible |-> TRUE]
    /\ lam_pc' = "returned"
    /\ UNCHANGED <<lam_cfg, lam_i, lam_a, lam_converged, lam_ap, notLam>>

LamOff ==
    /\ lam_pc = "off"
    /\ lam_cfg = NoLambertConfig
    /\ lam_i = 0
    /\ lam_a = R(0)
    /\ lam_converged = FALSE
    /\ lam_ap = NoAP
    /\ lam_ret = InfeasibleSolution

(***************************************************************************)
(* OrbitalMechanicsSolver.stateVectorToElements / elementsToStateVector.   *)
(* States are taken at an apsis with position and velocity along           *)
(* coordinate axes, so that every vector is rational and every angle a     *)
(* multiple of pi/2, and then moved along the orbit by a true-anomaly      *)
(* offset of some nanoradians.  An angle is <<q, d>>: q * pi/2 plus d      *)
(* nanoradians.  Vectors have rational components.                         *)
(***************************************************************************)
MaxClock == 2

RVCross(a, b) ==
    <<RSub(RMul(a[2], b[3]), RMul(a[3], b[2])),
      RSub(RMul(a[3], b[1]), RMul(a[1], b[3])),
      RSub(RMul(a[1], b[2]), RMul(a[2], b[1]))>>
RVDot(a, b) == RAdd(RAdd(RMul(a[1], b[1]), RMul(a[2], b[2])), RMul(a[3], b[3]))
RVScale(a, k) == <<RMul(a[1], k), RMul(a[2], k), RMul(a[3], k)>>
RVSub(a, b) == <<RSub(a[1], b[1]), RSub(a[2], b[2]), RSub(a[3], b[3])>>
\* Vector3.length() of a vector whose length is rational
RVNorm(a) == MathSqrt(RVDot(a, a))
\* Vector3.normalize(): divideScalar(length() || 1)
RVNormalize(a) ==
    LET l == RVNorm(a)
    IN  RVScale(a, RDiv(R(1), IF l = R(0) \/ IsNaN(l) THEN R(1) ELSE l))

\* angles
Angle(q) == <<q, 0>>
TwoPiMinus(x) == <<4 - x[1], 0 - x[2]>>
AngleLt(x, y) == x[1] < y[1] \/ (x[1] = y[1] /\ x[2] < y[2])
AngleLe(x, y) == x = y \/ AngleLt(x, y)
NaNAngle == <<0, 0, "NaN">>

\* Math.acos(Math.max(-1, Math.min(1, c))) for c in {-1, 0, 1} and NaN
AcosClamped(c) ==
    LET x == MathMax(R(-1), MathMin(R(1), c))
    IN  CASE x = R(1) -> Angle(0)
          [] x = R(0) -> Angle(1)
          [] x = R(-1) -> Angle(2)
          [] OTHER -> NaNAngle

\* Math.atan2(y, x) for a vector along an axis
Atan2(y, x) ==
    CASE RGt(y, R(0)) /\ x = R(0) -> Angle(1)
      [] RLt(y, R(0)) /\ x = R(0) -> Angle(-1)
      [] y = R(0) /\ RLt(x, R(0)) -> Angle(2)
      [] OTHER -> Angle(0)

\* Math.cos and Math.sin of the pi/2 part of an angle
CosQ(x) == CASE x[1] % 4 = 0 -> R(1) [] x[1] % 4 = 2 -> R(-1) [] OTHER -> R(0)
SinQ(x) == CASE x[1] % 4 = 1 -> R(1) [] x[1] % 4 = 3 -> R(-1) [] OTHER -> R(0)

\* doubles next to 1 are 2^-53 apart: the double nearest to cos(d nrad) is
\* 1 - j * 2^-53 with j = round(d^2 / 222), and Math.acos of it is
\* sqrt(j * 2^-52), in nanoradians
CosRoundedSteps(d) == (2 * d * d + 222) \div 444
AcosNearOne(j) ==
    CASE j = 0 -> 0 [] j = 1 -> 15 [] j = 2 -> 21 [] j = 3 -> 26 [] OTHER -> 30

\* the thresholds nMag > 1e-10 and e > 1e-10: the magnitudes of the model
\* are zero or above 1/16
AboveThreshold(x) == RGt(x, R(0))

\* the states converted: position R * axis, velocity V * axis', gravitational
\* parameter mu, moved by off nanoradians of true anomaly
UnitAxes == {<<1, 0, 0>>, <<-1, 0, 0>>, <<0, 1, 0>>, <<0, -1, 0>>, <<0, 0, 1>>,
             <<0, 0, -1>>}
\* apoapsis of e = 2/3, periapsis of e = 1/3, circular, periapsis of e = 3
OrbitShapes == {[mu |-> 6, R |-> 2, V |-> 1, circular |-> FALSE],
                [mu |-> 6, R |-> 2, V |-> 2, circular |-> FALSE],
                [mu |-> 2, R |-> 2, V |-> 1, circular |-> TRUE],
                [mu |-> 2, R |-> 2, V |-> 2, circular |-> FALSE]}
AnomalyOffsets == {-7, 0, 7, 12}
StateVectors ==
    {[position |-> RVScale(RVector(x), R(sh.R)),
      velocity |-> RVScale(RVector(y), R(sh.V)),
      mu |-> R(sh.mu), off |-> off] :
        <<x, y, sh, off>> \in
           {t \in UnitAxes \X UnitAxes \X OrbitShapes \X AnomalyOffsets :
               /\ t[1][1] * t[2][1] + t[1][2] * t[2][2] + t[1][3] * t[2][3] = 0
               /\ t[3].circular => t[4] = 0}}

\* eVector.dot(r) / (e * rMag) is 1 or -1 at an apsis; next to it the
\* rounded cosine and its Math.acos
AcosNearApsis(c, off) ==
    LET j == CosRoundedSteps(off)
    IN  CASE c = R(1) -> <<0, AcosNearOne(j)>>
          [] c = R(-1) -> <<2, 0 - AcosNearOne(j)>>
          [] OTHER -> AcosClamped(c)

\* r.dot(v) < 0: zero at the apsis, and next to it negative before the
\* periapsis and after the apoapsis
RadialVelocityNegative(state, c) ==
    \/ RLt(RVDot(state.position, state.velocity), R(0))
    \/ RLt(RMul(c, R(state.off)), R(0))

stateVectorToElements(state, now) ==
    LET r == state.position
        v == state.velocity
        mu == state.mu
        rMag == RVNorm(r)
        vMag == RVNorm(v)
        h == RVCross(r, v)
        hMag == RVNorm(h)
        energy == RSub(RDiv(RMul(vMag, vMag), R(2)), RDiv(mu, rMag))
        a == RDiv(RSub(R(0), mu), RMul(R(2), energy))
        eVector == RVSub(RVScale(RVCross(v, h), RDiv(R(1), mu)), RVNormalize(r))
        e == RVNorm(eVector)
        i == AcosClamped(RDiv(h[3], hMag))
        n == <<RSub(R(0), h[2]), h[1], R(0)>>
        nMag == RVNorm(n)
        Omega0 == AcosClamped(RDiv(n[1], nMag))
        Omega == IF AboveThreshold(nMag)
                 THEN IF RLt(n[2], R(0)) THEN TwoPiMinus(Omega0) ELSE Omega0
                 ELSE Angle(0)
        omega0 == AcosClamped(RDiv(RVDot(n, eVector), RMul(nMag, e)))
        omega == IF AboveThreshold(nMag) /\ AboveThreshold(e)
                 THEN IF RLt(eVector[3], R(0)) THEN TwoPiMinus(omega0) ELSE omega0
                 ELSE IF AboveThreshold(e) THEN Atan2(eVector[2], eVector[1])
                 ELSE Angle(0)
        cosNu == RDiv(RVDot(eVector, r), RMul(e, rMag))
        nuE == AcosNearApsis(cosNu, state.off)
        nuC == AcosClamped(RDiv(RVDot(n, r), RMul(nMag, rMag)))
        nu == IF AboveThreshold(e)
              THEN IF RadialVelocityNegative(state, cosNu) THEN TwoPiMinus(nuE)
                   ELSE nuE
              ELSE IF AboveThreshold(nMag)
                   THEN IF RLt(r[3], R(0)) THEN TwoPiMinus(nuC) ELSE nuC
                   ELSE Atan2(r[2], r[1])
    IN  [semiMajorAxis |-> a, eccentricity |-> e, inclination |-> i,
         longitudeOfAscendingNode |-> Omega, argumentOfPeriapsis |-> omega,
         trueAnomaly |-> nu, epoch |-> now]

elementsToStateVector(elements, mu) ==
    LET a == elements.semiMajorAxis
        e == elements.eccentricity
        i == elements.inclination
        Omega == elements.longitudeOfAscendingNode
        omega == elements.argumentOfPeriapsis
        nu == elements.trueAnomaly
        p == RMul(a, RSub(R(1), RMul(e, e)))
        r == RDiv(p, RAdd(R(1), RMul(e, CosQ(nu))))
        x_orb == RMul(r, CosQ(nu))
        y_orb == RMul(r, SinQ(nu))
        h == MathSqrt(RMul(mu, p))
        vx_orb == RSub(R(0), RMul(RDiv(mu, h), SinQ(nu)))
        vy_orb == RMul(RDiv(mu, h), RAdd(e, CosQ(nu)))
        P11 == RSub(RMul(CosQ(Omega), CosQ(omega)),
                    RMul(RMul(SinQ(Omega), SinQ(omega)), CosQ(i)))
        P12 == RSub(RSub(R(0), RMul(CosQ(Omega), SinQ(omega))),
                    RMul(RMul(SinQ(Omega), CosQ(omega)), CosQ(i)))
        P21 == RAdd(RMul(SinQ(Omega), CosQ(omega)),
                    RMul(RMul(CosQ(Omega), SinQ(omega)), CosQ(i)))
        P22 == RAdd(RSub(R(0), RMul(SinQ(Omega), SinQ(omega))),
                    RMul(RMul(CosQ(Omega), CosQ(omega)), CosQ(i)))
        P31 == RMul(SinQ(omega), SinQ(i))
        P32 == RMul(CosQ(omega), SinQ(i))
    IN  [position |-> <<RAdd(RMul(P11, x_orb), RMul(P12, y_orb)),
                        RAdd(RMul(P21, x_orb), RMul(P22, y_orb)),
                        RAdd(RMul(P31, x_orb), RMul(P32, y_orb))>>,
         velocity |-> <<RAdd(RMul(P11, vx_orb), RMul(P12, vy_orb)),
                        RAdd(RMul(P21, vx_orb), RMul(P22, vy_orb)),
                        RAdd(RMul(P31, vx_orb), RMul(P32, vy_orb))>>,
         mu |-> mu, off |-> nu[2]]

NoState == [position |-> RVector(Vector3Zero), velocity |-> RVector(Vector3Zero),
            mu |-> R(1), off |-> 0]
NoElements == [semiMajorAxis |-> R(0), eccentricity |-> R(0), inclination |-> Angle(0),
               longitudeOfAscendingNode |-> Angle(0),
               argumentOfPeriapsis |-> Angle(0), trueAnomaly |-> Angle(0),
               epoch |-> -1]

\* time passes between calls
OE_Tick ==
    /\ clock < MaxClock
    /\ clock' = clock + 1
    /\ UNCHANGED <<oe_call, oe_state, oe_elements, oe_prev, oe_back, notOe>>

\* a call of stateVectorToElements, the first one or one more with the same
\* arguments; oe_prev keeps the result of the call before
OE_stateVectorToElements ==
    /\ \E state \in IF oe_call = "none" THEN StateVectors ELSE {oe_state} :
          /\ oe_state' = state
          /\ oe_elements' = stateVectorToElements(state, clock)
          /\ oe_prev' = IF oe_call # "none" /\ state = oe_state THEN oe_elements
                        ELSE NoElements
    /\ oe_call' = "stateVectorToElements"
    /\ oe_back' = NoState
    /\ UNCHANGED <<clock, notOe>>

\* elementsToStateVector on the elements just computed
OE_elementsToStateVector ==
    /\ oe_call = "stateVectorToElements"
    /\ oe_back' = elementsToStateVector(oe_elements, oe_state.mu)
    /\ oe_call' = "elementsToStateVector"
    /\ UNCHANGED <<clock, oe_state, oe_elements, oe_prev, notOe>>

OeIdle ==
    /\ clock = 0
    /\ oe_call = "none"
    /\ oe_state = NoState
    /\ oe_elements = NoElements
    /\ oe_prev = NoElements
    /\ oe_back = NoState

(***************************************************************************)
(* LambertSolver.solveMultiRevolution and findOptimalTransfer.  Each call  *)
(* of solve returns one of the solutions Lambert_Return can build.         *)
(***************************************************************************)
MaxRevolutions == 3
\* findOptimalTransfer uses solveMultiRevolution's default maxRevolutions
DefaultMaxRevolutions == 3

\* the solutions solve returns with feasible: true (lines 66-80)
FeasibleSolutions ==
    {[v1 |-> v1, v2 |-> v2, deltaV |-> RAdd(RVLength(v1), RVLength(v2)),
      trajectory |-> TrajectorySteps + 1, feasible |-> TRUE] :
        v1 \in LambertVelocities, v2 \in {RVector(<<3, 4, 0>>)}}
SolveResults == FeasibleSolutions \cup {InfeasibleSolution}

\* the comparator (a, b) => a.deltaV - b.deltaV; sort reads NaN as +0
CompareDeltaV(a, b) ==
    LET d == RSub(a.deltaV, b.deltaV)
    IN  IF IsNaN(d) THEN R(0) ELSE d

\* Array.prototype.sort: a stable sort when the comparator is a consistent
\* order; with a comparator that is not, any order in which no neighbours
\* compare as out of order
Sorts(list) ==
    LET n == Len(list)
        Perms == {f \in [1..n -> 1..n] : \A i, j \in 1..n : i # j => f[i] # f[j]}
        Ok(f) ==
            /\ \A i \in 1..(n - 1) :
                  ~RGt(CompareDeltaV(list[f[i]], list[f[i + 1]]), R(0))
            /\ \A i, j \in 1..n :
                  (i < j /\ isFinite(list[f[i]].deltaV)
                         /\ list[f[i]].deltaV = list[f[j]].deltaV) => f[i] < f[j]
    IN  {[i \in 1..n |-> list[f[i]]] : f \in {g \in Perms : Ok(g)}}

NoMrCall == [op |-> "none", maxRevolutions |-> 0]

MR_Call ==
    /\ mr_pc = "idle"
    /\ \/ \E maxRevolutions \in 0..MaxRevolutions :
             mr_call' = [op |-> "solveMultiRevolution",
                         maxRevolutions |-> maxRevolutions]
       \/ mr_call' = [op |-> "findOptimalTransfer",
                      maxRevolutions |-> DefaultMaxRevolutions]
    /\ mr_rev' = 0
    /\ mr_solutions' = <<>>
    /\ mr_pc' = "loop"
    /\ UNCHANGED <<mr_ret, notMr>>

\* one pass of the for loop (lines 265-272)
MR_Solve ==
    /\ mr_pc = "loop"
    /\ mr_rev <= mr_call.maxRevolutions
    /\ \E solution \in SolveResults :
          mr_solutions' = IF solution.feasible THEN Append(mr_solutions, solution)
                          ELSE mr_solutions
    /\ mr_rev' = mr_rev + 1
    /\ UNCHANGED <<mr_pc, mr_call, mr_ret, notMr>>

\* line 275, and for findOptimalTransfer lines 286-297
MR_Return ==
    /\ mr_pc = "loop"
    /\ ~(mr_rev <= mr_call.maxRevolutions)
    /\ \E sorted \in Sorts(mr_solutions) :
          mr_ret' = IF mr_call.op = "solveMultiRevolution" THEN sorted
                    ELSE IF Len(sorted) = 0 THEN <<InfeasibleSolution>>
                    ELSE <<sorted[1]>>
    /\ mr_pc' = "returned"
    /\ UNCHANGED <<mr_call, mr_rev, mr_solutions, notMr>>

MrIdle ==
    /\ mr_pc = "idle"
    /\ mr_call = NoMrCall
    /\ mr_rev = 0
    /\ mr_solutions = <<>>
    /\ mr_ret = <<>>

(***************************************************************************)
(* Object identity of the position and velocity vectors in                 *)
(* Integrator.integrate, NumericalPropagator.propagate (which calls        *)
(* integrate) and KeplerianPropagator.propagate.  A state holds two        *)
(* references into the heap of Vector3 objects.                            *)
(***************************************************************************)
MaxSteps == 2

AliasOps == {"Integrator.integrate", "NumericalPropagator.propagate",
             "KeplerianPropagator.propagate"}
VectorValues == {0, 1}

\* { ...state }: a new object with the same two references
Spread(state) == [position |-> state.position, velocity |-> state.velocity]

\* step and propagateStep build their result with clone() and new Vector3:
\* two objects allocated after all existing ones
FreshState(heap) == [position |-> Len(heap) + 1, velocity |-> Len(heap) + 2]

Deref(heap, state) == <<heap[state.position], heap[state.velocity]>>

NoAliasCall == [op |-> "none", steps |-> 0]
NoRefs == [position |-> 0, velocity |-> 0]
NoSnapshot == [input |-> <<0, 0>>, states |-> <<>>]

\* the call up to the first push: integrate copies initialState with a
\* spread and pushes a spread of the copy (lines 36, 44); propagate pushes a
\* spread of initialState (KeplerianPropagator.ts lines 18-24)
AL_Call ==
    /\ al_pc = "idle"
    /\ \E op \in AliasOps, steps \in 0..MaxSteps, p, v \in VectorValues :
          /\ al_call' = [op |-> op, steps |-> steps]
          /\ al_heap' = <<p, v>>
    /\ al_initial' = [position |-> 1, velocity |-> 2]
    /\ al_current' = Spread(al_initial')
    /\ al_states' = <<Spread(al_current')>>
    /\ al_pc' = "loop"
    /\ UNCHANGED <<al_snapshot, al_touched, notAl>>

\* one pass of the loop: the step's result becomes currentState and a spread
\* of it is pushed
AL_Step ==
    /\ al_pc = "loop"
    /\ Len(al_states) <= al_call.steps
    /\ \E p, v \in VectorValues : al_heap' = al_heap \o <<p, v>>
    /\ al_current' = FreshState(al_heap)
    /\ al_states' = Append(al_states, Spread(al_current'))
    /\ UNCHANGED <<al_pc, al_call, al_initial, al_snapshot, al_touched, notAl>>

AL_Return ==
    /\ al_pc = "loop"
    /\ ~(Len(al_states) <= al_call.steps)
    /\ al_pc' = "returned"
    /\ al_snapshot' = [input |-> Deref(al_heap, al_initial),
                       states |-> [i \in 1..Len(al_states) |->
                                      Deref(al_heap, al_states[i])]]
    /\ UNCHANGED <<al_call, al_heap, al_initial, al_current, al_states,
                   al_touched, notAl>>

\* the caller mutates a vector in place (Vector3.set, add, ...) through the
\* input state (handle 0) or through the i-th returned state (handle i)
AL_Mutate ==
    /\ al_pc = "returned"
    /\ \E handle \in 0..Len(al_states), field \in {"position", "velocity"},
          value \in VectorValues :
          LET state == IF handle = 0 THEN al_initial ELSE al_states[handle]
          IN  /\ al_heap' = [al_heap EXCEPT ![state[field]] = value]
              /\ al_touched' = al_touched \cup {handle}
    /\ UNCHANGED <<al_pc, al_call, al_initial, al_current, al_states,
                   al_snapshot, notAl>>

AlIdle ==
    /\ al_pc = "idle"
    /\ al_call = NoAliasCall
    /\ al_heap = <<>>
    /\ al_initial = NoRefs
    /\ al_current = NoRefs
    /\ al_states = <<>>
    /\ al_snapshot = NoSnapshot
    /\ al_touched = {}

(***************************************************************************)
(* step of EulerIntegrator, RungeKutta4, RungeKuttaFehlberg and Verlet,    *)
(* and Verlet.reset.  A Vector3 is an object of the heap, represented by   *)
(* one component (clone, add and multiplyScalar treat the three alike);    *)
(* add and multiplyScalar change their receiver in place.  The derivative  *)
(* is the caller's function: it allocates its result and does not write    *)
(* to its argument.                                                        *)
(***************************************************************************)
MaxStepCalls == 2

StepClasses == {"EulerIntegrator", "RungeKutta4", "RungeKuttaFehlberg", "Verlet"}
\* position and velocity of the states the caller builds, and deltaTime
StepStates == {<<R(0), R(1)>>, <<R(1), R(1)>>}
StepSizes == {R(2)}

\* what the caller's derivative returns: zero vectors, constant vectors, or
\* the velocity vector of its argument itself as the position rate together
\* with a constant acceleration
DerivativeKinds == {"zero", "constant", "kinematic"}

NoStepState == [position |-> 0, velocity |-> 0, time |-> R(0)]
NoAcceleration == [position |-> 0, velocity |-> 0, time |-> R(0)]
NoStepArgs == [kind |-> "none", deltaTime |-> R(0)]
NoBefore == [state |-> <<R(0), R(0), R(0)>>, stepCount |-> 0,
             totalError |-> R(0), config |-> <<>>]

\* Vector3.clone(): a new object with the same contents
clone_Self(heap, ref) == [heap |-> heap, ref |-> ref]

clone(heap, ref) == [heap |-> Append(heap, heap[ref]), ref |-> Len(heap) + 1]

\* Vector3.multiplyScalar(s) and Vector3.add(v): the heap afterwards
multiplyScalar(heap, ref, s) == [heap EXCEPT ![ref] = RMul(heap[ref], s)]
add(heap, ref, v) == [heap EXCEPT ![ref] = RAdd(heap[ref], heap[v])]

\* F(x), with x evaluated once: the statements of a method run in sequence,
\* each on the heap the one before left
Once(x, F(_)) == CHOOSE r \in {F(y) : y \in {x}} : TRUE

\* target.add(v.clone().multiplyScalar(s))
AddScaledClone(heap, target, v, s) ==
    Once(clone(heap, v),
         LAMBDA c : add(multiplyScalar(c.heap, c.ref, s), target, c.ref))

\* base.clone().add(v1.clone().multiplyScalar(s1)).add(...)...: the clone of
\* base is target; the terms from the i-th on are added
RECURSIVE AddTerms(_, _, _, _, _)
AddTerms(heap, target, vs, ss, i) ==
    IF i > Len(vs) THEN heap
    ELSE Once(AddScaledClone(heap, target, vs[i], ss[i]),
              LAMBDA h : AddTerms(h, target, vs, ss, i + 1))

Combination(heap, base, vs, ss) ==
    Once(clone(heap, base),
         LAMBDA c : [heap |-> AddTerms(c.heap, c.ref, vs, ss, 1), ref |-> c.ref])

\* the caller's derivative(state, t)
derivative(heap, state, kind) ==
    CASE kind = "zero" ->
           [heap |-> heap \o <<R(0), R(0)>>,
            state |-> [position |-> Len(heap) + 1, velocity |-> Len(heap) + 2,
                       time |-> state.time]]
      [] kind = "constant" ->
           [heap |-> heap \o <<R(1), R(1)>>,
            state |-> [position |-> Len(heap) + 1, velocity |-> Len(heap) + 2,
                       time |-> state.time]]
      [] kind = "kinematic" ->
           [heap |-> Append(heap, R(-1)),
            state |-> [position |-> state.velocity, velocity |-> Len(heap) + 1,
                       time |-> state.time]]

\* a state object from the results p and v of two vector expressions
NewState(p, v, time) ==
    [heap |-> v.heap,
     state |-> [position |-> p.ref, velocity |-> v.ref, time |-> time]]

\* Integrator.cloneState
cloneState(heap, state) ==
    Once(clone(heap, state.position), LAMBDA p :
    Once(clone(p.heap, state.velocity), LAMBDA v :
         NewState(p, v, state.time)))

\* Integrator.addStates
addStates(heap, state1, state2, scale2) ==
    Once(Combination(heap, state1.position, <<state2.position>>, <<scale2>>),
         LAMBDA p :
    Once(Combination(p.heap, state1.velocity, <<state2.velocity>>, <<scale2>>),
         LAMBDA v :
         NewState(p, v, state1.time)))

\* EulerIntegrator.step
Euler_step(heap, state, kind, deltaTime) ==
    Once(derivative(heap, state, kind), LAMBDA k1 :
    Once(Combination(k1.heap, state.position, <<k1.state.position>>,
                     <<deltaTime>>), LAMBDA p :
    Once(Combination(p.heap, state.velocity, <<k1.state.velocity>>,
                     <<deltaTime>>), LAMBDA v :
         NewState(p, v, RAdd(state.time, deltaTime)))))

\* RungeKutta4.step
RK4_step(heap, state, kind, deltaTime) ==
    LET dt_2 == RDiv(deltaTime, R(2))
        ss == <<RDiv(deltaTime, R(6)), RDiv(deltaTime, R(3)),
                RDiv(deltaTime, R(3)), RDiv(deltaTime, R(6))>>
    IN  Once(derivative(heap, state, kind), LAMBDA k1 :
        Once(addStates(k1.heap, state, k1.state, dt_2), LAMBDA state2 :
        Once(derivative(state2.heap, state2.state, kind), LAMBDA k2 :
        Once(addStates(k2.heap, state, k2.state, dt_2), LAMBDA state3 :
        Once(derivative(state3.heap, state3.state, kind), LAMBDA k3 :
        Once(addStates(k3.heap, state, k3.state, deltaTime), LAMBDA state4 :
        Once(derivative(state4.heap, state4.state, kind), LAMBDA k4 :
        Once(Combination(k4.heap, state.position,
                         <<k1.state.position, k2.state.position,
                           k3.state.position, k4.state.position>>, ss),
             LAMBDA p :
        Once(Combination(p.heap, state.velocity,
                         <<k1.state.velocity, k2.state.velocity,
                           k3.state.velocity, k4.state.velocity>>, ss),
             LAMBDA v :
             NewState(p, v, RAdd(state.time, deltaTime)))))))))))

\* the Butcher tableau of RungeKuttaFehlberg (rows of a from the second on)
RKF_a == <<
    <<Frac(1, 4)>>,
    <<Frac(3, 32), Frac(9, 32)>>,
    <<Frac(1932, 2197), Frac(-7200, 2197), Frac(7296, 2197)>>,
    <<Frac(439, 216), R(-8), Frac(3680, 513), Frac(-845, 4104)>>,
    <<Frac(-8, 27), R(2), Frac(-3544, 2565), Frac(1859, 4104), Frac(-11, 40)>> >>
RKF_b5 == <<Frac(16, 135), R(0), Frac(6656, 12825), Frac(28561, 56430),
            Frac(-9, 50), Frac(2, 55)>>

\* the inner loop over j: tempState = addStates(tempState, k[j], dt * a[i][j])
RECURSIVE RKF_temp(_, _, _, _, _, _)
RKF_temp(heap, tempState, k, i, j, deltaTime) ==
    IF j > i THEN [heap |-> heap, state |-> tempState]
    ELSE Once(addStates(heap, tempState, k[j], RMul(deltaTime, RKF_a[i][j])),
              LAMBDA t : RKF_temp(t.heap, t.state, k, i, j + 1, deltaTime))

\* Verlet.step: both branches on previousAcceleration build the same
\* position; currentAccel is what the field is set to
Verlet_step(heap, state, kind, deltaTime) ==
    LET dt2 == RMul(deltaTime, deltaTime)
        half == RMul(Frac(1, 2), deltaTime)
    IN  Once(derivative(heap, state, kind), LAMBDA currentAccel :
        Once(Combination(currentAccel.heap, state.position,
                         <<state.velocity, currentAccel.state.velocity>>,
                         <<deltaTime, RMul(Frac(1, 2), dt2)>>), LAMBDA p :
        Once(clone(p.heap, state.velocity), LAMBDA tv :
        Once(derivative(tv.heap,
                        [position |-> p.ref, velocity |-> tv.ref,
                         time |-> RAdd(state.time, deltaTime)], kind),
             LAMBDA newAccel :
        Once(Combination(newAccel.heap, state.velocity,
                         <<currentAccel.state.velocity, newAccel.state.velocity>>,
                         <<half, half>>), LAMBDA v :
             [heap |-> v.heap,
              state |-> [position |-> p.ref, velocity |-> v.ref,
                         time |-> RAdd(state.time, deltaTime)],
              currentAccel |-> currentAccel.state])))))

step(class, heap, state, kind, deltaTime) ==
    CASE class = "EulerIntegrator" -> Euler_step(heap, state, kind, deltaTime)
      [] class = "RungeKutta4" -> RK4_step(heap, state, kind, deltaTime)
      [] class = "Verlet" -> Verlet_step(heap, state, kind, deltaTime)

\* contents of a state: its two vectors and its time
Contents(heap, state) == <<heap[state.position], heap[state.velocity], state.time>>

\* the argument of a step call: a state the caller builds, or the state the
\* previous call returned
StepArguments(fresh, pv) ==
    [heap |-> IF fresh THEN st_heap \o pv ELSE st_heap,
     state |-> IF fresh
               THEN [position |-> Len(st_heap) + 1,
                     velocity |-> Len(st_heap) + 2, time |-> R(0)]
               ELSE st_ret]

\* step of EulerIntegrator, RungeKutta4 and Verlet
ST_Step ==
    /\ integrator \in StepClasses \ {"RungeKuttaFehlberg"}
    /\ st_calls < MaxStepCalls
    /\ \E fresh \in BOOLEAN, pv \in StepStates, kind \in DerivativeKinds,
          deltaTime \in StepSizes :
          /\ fresh \/ st_calls > 0
          /\ \E a \in {StepArguments(fresh, pv)} :
             \E r \in {step(integrator, a.heap, a.state, kind, deltaTime)} :
                 /\ st_state' = a.state
                 /\ st_before' = [state |-> Contents(a.heap, a.state),
                                  stepCount |-> stepCount,
                                  totalError |-> totalError, config |-> config]
                 /\ st_heap' = r.heap
                 /\ st_ret' = r.state
                 /\ previousAcceleration' =
                       IF integrator = "Verlet" THEN r.currentAccel
                       ELSE previousAcceleration
    /\ st_pc' = "step"
    /\ st_calls' = st_calls + 1
    /\ UNCHANGED <<st_args, st_k, coreVars, notSt>>

\* RungeKuttaFehlberg.step up to its loop: k[0] = derivative(state, state.time)
RKF45_Call ==
    /\ integrator = "RungeKuttaFehlberg"
    /\ st_pc \in {"idle", "step"}
    /\ st_calls < MaxStepCalls
    /\ \E fresh \in BOOLEAN, pv \in StepStates, kind \in DerivativeKinds,
          deltaTime \in StepSizes :
          /\ fresh \/ st_calls > 0
          /\ \E a \in {StepArguments(fresh, pv)} :
             \E k0 \in {derivative(a.heap, a.state, kind)} :
                 /\ st_state' = a.state
                 /\ st_before' = [state |-> Contents(a.heap, a.state),
                                  stepCount |-> stepCount,
                                  totalError |-> totalError, config |-> config]
                 /\ st_heap' = k0.heap
                 /\ st_k' = <<k0.state>>
                 /\ st_args' = [kind |-> kind, deltaTime |-> deltaTime]
    /\ st_pc' = "k"
    /\ st_calls' = st_calls + 1
    /\ UNCHANGED <<st_ret, previousAcceleration, coreVars, notSt>>

\* one pass of the loop over i = 1..5 (k is 1-based here: i = Len(st_k))
RKF45_Stage ==
    /\ st_pc = "k"
    /\ Len(st_k) < 6
    /\ \E c \in {cloneState(st_heap, st_state)} :
       \E t \in {RKF_temp(c.heap, c.state, st_k, Len(st_k), 1,
                          st_args.deltaTime)} :
       \E d \in {derivative(t.heap, t.state, st_args.kind)} :
           /\ st_heap' = d.heap
           /\ st_k' = Append(st_k, d.state)
    /\ UNCHANGED <<st_pc, st_calls, st_state, st_ret, st_before, st_args,
                   previousAcceleration, coreVars, notSt>>

\* the fifth-order combination and the return
RKF45_Return ==
    /\ st_pc = "k"
    /\ ~(Len(st_k) < 6)
    /\ \E ss \in {[i \in 1..6 |-> RMul(st_args.deltaTime, RKF_b5[i])]} :
       \E p \in {Combination(st_heap, st_state.position,
                              [i \in 1..6 |-> st_k[i].position], ss)} :
       \E v \in {Combination(p.heap, st_state.velocity,
                              [i \in 1..6 |-> st_k[i].velocity], ss)} :
           /\ st_heap' = v.heap
           /\ st_ret' = [position |-> p.ref, velocity |-> v.ref,
                         time |-> RAdd(st_state.time, st_args.deltaTime)]
    /\ st_pc' = "step"
    /\ st_k' = <<>>
    /\ st_args' = NoStepArgs
    /\ UNCHANGED <<st_calls, st_state, st_before, previousAcceleration, coreVars,
                   notSt>>

\* Verlet.reset
ST_Reset ==
    /\ integrator = "Verlet"
    /\ st_pc = "step"
    /\ previousAcceleration' = NoAcceleration
    /\ stepCount' = 0
    /\ totalError' = R(0)
    /\ st_pc' = "reset"
    /\ UNCHANGED <<integrator, config, args, pc, currentTime, dt, states,
                   stepSizes, errors, asVars, fmVars, kepVars, lamVars, notSt,
                   st_calls, st_heap, st_state, st_ret, st_before, st_args,
                   st_k>>

StIdle ==
    /\ st_pc = "idle"
    /\ st_calls = 0
    /\ st_heap = <<>>
    /\ st_state = NoStepState
    /\ st_ret = NoStepState
    /\ st_before = NoBefore
    /\ st_args = NoStepArgs
    /\ st_k = <<>>
    /\ previousAcceleration = NoAcceleration

(***************************************************************************)
(* rendezvousOptimization.  The loop variable t and the step dt are        *)
(* doubles: a positive double is [h, l, e], its 53-bit mantissa split in   *)
(* the high 26 bits h and the low 27 bits l, and e the exponent of the     *)
(* last bit, so that its value is (h * 2^27 + l) * 2^e; every operation    *)
(* rounds to nearest, ties to even.  The Lambert solution of a sample      *)
(* depends on the orbits: it is any of the solutions solve can return.     *)
(***************************************************************************)
MantissaBits == 53
Resolution == 100

\* the mantissa is held in two parts, the low one of LowBits bits
LowBits == MantissaBits \div 2 + 1

\* 2^LowBits and 2^(MantissaBits - LowBits)
Low == IPow(2, LowBits)
High == IPow(2, MantissaBits - LowBits)

Zero == [h |-> 0, l |-> 0, e |-> 0]

Zeros(n) == [i \in 1..(IF n < 0 THEN 0 ELSE n) |-> 0]

\* binary digits of a natural number, most significant first
RECURSIVE IntBits(_)
IntBits(n) == IF n = 0 THEN <<>> ELSE Append(IntBits(n \div 2), n % 2)

\* the number a bit string denotes
BitsValue(bits) ==
    LET v[i \in 0..Len(bits)] == IF i = 0 THEN 0 ELSE 2 * v[i - 1] + bits[i]
    IN  v[Len(bits)]

StripZeros(bits) ==
    LET ones == {i \in 1..Len(bits) : bits[i] = 1}
    IN  IF ones = {} THEN <<>>
        ELSE SubSeq(bits, CHOOSE i \in ones : \A j \in ones : i <= j, Len(bits))

\* the next double above x
FNext(x) ==
    IF x.l + 1 < Low THEN [x EXCEPT !.l = x.l + 1]
    ELSE IF x.h + 1 < High THEN [x EXCEPT !.h = x.h + 1, !.l = 0]
    ELSE [h |-> High \div 2, l |-> 0, e |-> x.e + 1]

\* the double nearest to bits * 2^e (bits[1] = 1), or to a value just above
\* it when sticky; ties go to the even mantissa
FRound(bits, e, sticky) ==
    LET L == Len(bits)
        padded == bits \o Zeros(MantissaBits - L)
        kept == SubSeq(padded, 1, MantissaBits)
        x == [h |-> BitsValue(SubSeq(kept, 1, MantissaBits - LowBits)),
              l |-> BitsValue(SubSeq(kept, MantissaBits - LowBits + 1, MantissaBits)),
              e |-> e + (L - MantissaBits)]
    IN  IF L <= MantissaBits THEN x
        ELSE LET guard == bits[MantissaBits + 1]
                 rest == sticky \/ \E i \in (MantissaBits + 2)..L : bits[i] = 1
             IN  IF guard = 1 /\ (rest \/ kept[MantissaBits] = 1) THEN FNext(x)
                 ELSE x

\* a natural number as a double
FromInt(n) == IF n = 0 THEN Zero ELSE FRound(IntBits(n), 0, FALSE)

\* timeWindow / 100 for a natural timeWindow: long division to FractionBits
\* binary places (a quotient of at least 1/100 has its 53 bits and the next
\* one among them), the remainder read as sticky
FractionBits == MantissaBits + 8
FDiv100(n) ==
    LET rem[j \in 0..FractionBits] ==
            IF j = 0 THEN n % Resolution ELSE (2 * rem[j - 1]) % Resolution
        frac == [j \in 1..FractionBits |-> (2 * rem[j - 1]) \div Resolution]
        bits == StripZeros(IntBits(n \div Resolution) \o frac)
    IN  IF n = 0 THEN Zero
        ELSE FRound(bits, -FractionBits, rem[FractionBits] # 0)

\* where a remainder lies between 0 and twice half
Fraction(rem, half) ==
    IF rem = 0 THEN "zero"
    ELSE IF rem < half THEN "below"
    ELSE IF rem = half THEN "half"
    ELSE "above"

\* the mantissa of x moved s places to the right, and the part moved out
ShiftRight(x, s) ==
    IF s = 0 THEN [h |-> x.h, l |-> x.l, frac |-> "zero"]
    ELSE IF s <= LowBits
    THEN LET p == IPow(2, s)
         IN  [h |-> x.h \div p,
              l |-> (x.l \div p) + (x.h % p) * (Low \div p),
              frac |-> Fraction(x.l % p, p \div 2)]
    ELSE IF s <= MantissaBits
    THEN LET p == IPow(2, s - LowBits)
             f == Fraction(x.h % p, p \div 2)
         IN  [h |-> 0,
              l |-> x.h \div p,
              frac |-> IF x.l = 0 THEN f
                       ELSE IF f \in {"zero", "below"} THEN "below" ELSE "above"]
    ELSE [h |-> 0, l |-> 0, frac |-> "below"]

\* x + y
FAdd(x, y) ==
    IF x = Zero THEN y
    ELSE IF y = Zero THEN x
    ELSE LET a == IF x.e < y.e THEN y ELSE x
             b == IF x.e < y.e THEN x ELSE y
             sh == ShiftRight(b, a.e - b.e)
             l0 == a.l + sh.l
             h0 == a.h + sh.h + (l0 \div Low)
             l1 == l0 % Low
             same == [h |-> h0, l |-> l1, e |-> a.e]
             wide == [h |-> h0 \div 2, l |-> (l1 \div 2) + (h0 % 2) * (Low \div 2),
                      e |-> a.e + 1]
         IN  IF h0 < High
             THEN IF sh.frac = "above" \/ (sh.frac = "half" /\ l1 % 2 = 1)
                  THEN FNext(same) ELSE same
             ELSE IF l1 % 2 = 1 /\ (sh.frac # "zero" \/ wide.l % 2 = 1)
                  THEN FNext(wide) ELSE wide

\* x <= y
FLe(x, y) ==
    IF x = Zero THEN TRUE
    ELSE IF y = Zero THEN FALSE
    ELSE IF x.e # y.e THEN x.e < y.e
    ELSE IF x.h # y.h THEN x.h < y.h
    ELSE x.l <= y.l

\* timeWindow in seconds, and the chaser's velocity and position
TimeWindows == {0, 60, 100}
ChaserVelocities == {RVector(<<1, 0, 0>>)}
ChaserPosition == RVector(<<7, 0, 0>>)

NoRendezvous == [timeWindow |-> 0, velocity |-> RVector(Vector3Zero)]
NoBest == [time |-> Zero, solution |-> InfeasibleSolution]
NoRendezvousResult == [optimalTime |-> Zero, deltaV |-> R(0), maneuvers |-> <<>>]

\* lines 220-222
RV_Call ==
    /\ rv_pc = "idle"
    /\ \E w \in TimeWindows, v \in ChaserVelocities :
          /\ rv_call' = [timeWindow |-> w, velocity |-> v]
          /\ rv_dt' = FDiv100(w)
    /\ rv_t' = Zero
    /\ rv_bestSolution' = NoBest
    /\ rv_minDeltaV' = Infinity
    /\ rv_pc' = "loop"
    /\ UNCHANGED <<rv_count, rv_seen, rv_ret, notRv>>

\* one pass of the loop (lines 225-254): the sample at t, then t += dt.
\* With timeWindow = 0, dt is 0 and the loop never ends: it is followed for
\* Resolution + 2 passes.
RV_Sample ==
    /\ rv_pc = "loop"
    /\ FLe(rv_t, FromInt(rv_call.timeWindow))
    /\ rv_count <= Resolution + 1
    /\ \E lambertSolution \in SolveResults :
          /\ IF lambertSolution.feasible
                /\ RLt(lambertSolution.deltaV, rv_minDeltaV)
             THEN /\ rv_minDeltaV' = lambertSolution.deltaV
                  /\ rv_bestSolution' = [time |-> rv_t,
                                         solution |-> lambertSolution]
             ELSE UNCHANGED <<rv_minDeltaV, rv_bestSolution>>
          /\ rv_seen' = IF lambertSolution.feasible
                           /\ ~IsNaN(lambertSolution.deltaV)
                        THEN rv_seen \cup {lambertSolution.deltaV}
                        ELSE rv_seen
    /\ rv_t' = FAdd(rv_t, rv_dt)
    /\ rv_count' = rv_count + 1
    /\ UNCHANGED <<rv_pc, rv_call, rv_dt, rv_ret, notRv>>

\* lines 256-273
RV_Return ==
    /\ rv_pc = "loop"
    /\ ~FLe(rv_t, FromInt(rv_call.timeWindow))
    /\ rv_ret' =
          IF rv_bestSolution = NoBest
          THEN [optimalTime |-> Zero, deltaV |-> Infinity, maneuvers |-> <<>>]
          ELSE [optimalTime |-> rv_bestSolution.time,
                deltaV |-> rv_bestSolution.solution.deltaV,
                maneuvers |->
                   <<[time |-> 0,
                      deltaV |-> RVSub(rv_bestSolution.solution.v1,
                                       rv_call.velocity),
                      position |-> ChaserPosition]>>]
    /\ rv_pc' = "returned"
    /\ UNCHANGED <<rv_call, rv_dt, rv_t, rv_count, rv_bestSolution,
                   rv_minDeltaV, rv_seen, notRv>>

RvIdle ==
    /\ rv_pc = "idle"
    /\ rv_call = NoRendezvous
    /\ rv_dt = Zero
    /\ rv_t = Zero
    /\ rv_count = 0
    /\ rv_bestSolution = NoBest
    /\ rv_minDeltaV = Infinity
    /\ rv_seen = {}
    /\ rv_ret = NoRendezvousResult


(***************************************************************************)
(* Integrator.integrate with currentTime and dt as doubles.  The states    *)
(* themselves are left out: only the loop's time variables are followed.   *)
(* The integrator is either one in fixed-step mode or an AdaptiveStepsize, *)
(* whose trials are either accepted with a zero error estimate or          *)
(* rejected, so that every step size is computed without rounding other    *)
(* than that of the additions and subtractions below.                      *)
(***************************************************************************)
MaxFloatSteps == 5

\* 2^k as a double
Pow2(k) == [h |-> High \div 2, l |-> 0, e |-> k - (MantissaBits - 1)]

\* x * 2 and x * 0.5 (exact)
FTwice(x) == IF x = Zero THEN Zero ELSE [x EXCEPT !.e = @ + 1]
FHalf(x) == IF x = Zero THEN Zero ELSE [x EXCEPT !.e = @ - 1]

FLt(x, y) == ~FLe(y, x)
FMax(x, y) == IF FLe(x, y) THEN y ELSE x
FMin(x, y) == IF FLe(x, y) THEN x ELSE y

\* the binary digits of n on exactly w places
FixedBits(n, w) == Zeros(w - Len(IntBits(n))) \o IntBits(n)

\* x - y for x >= y >= 0.  Both mantissas get three more places; y's is moved
\* right to x's exponent, what is moved out making the difference a value
\* just above an integer; the difference is then rounded to 53 bits.
FSub(x, y) ==
    IF y = Zero THEN x
    ELSE IF x = y THEN Zero
    ELSE IF x.e - y.e > MantissaBits + 2 THEN x
    ELSE LET s == x.e - y.e
             wide == 8 * Low
             yl == 8 * y.l
             p == IF s <= LowBits + 3 THEN IPow(2, s) ELSE IPow(2, s - LowBits - 3)
             sh == IF s = 0 THEN [h |-> y.h, l |-> yl, sticky |-> FALSE]
                   ELSE IF s <= LowBits + 3
                   THEN [h |-> y.h \div p,
                         l |-> (yl \div p) + (y.h % p) * (wide \div p),
                         sticky |-> yl % p # 0]
                   ELSE [h |-> 0, l |-> y.h \div p,
                         sticky |-> y.h % p # 0 \/ yl # 0]
             l0 == 8 * x.l - sh.l - (IF sh.sticky THEN 1 ELSE 0)
             l1 == IF l0 < 0 THEN l0 + wide ELSE l0
             h1 == x.h - sh.h - (IF l0 < 0 THEN 1 ELSE 0)
             bits == StripZeros(FixedBits(h1, MantissaBits - LowBits)
                                  \o FixedBits(l1, LowBits + 3))
         IN  FRound(bits, x.e - 3, sh.sticky)

FloatMinSteps == {Pow2(-60), Pow2(0)}
FloatMaxStep == Pow2(2)
FloatTimeSteps == {FromInt(1), FromInt(3)}
FloatTotalTimes == {Zero, FromInt(4), FromInt(5)}

\* how many trials of a call of adaptiveStep are rejected before one is
\* accepted (with error 0); maxIterations: all of them
Rejections == {0, 1, maxIterations}

NoFloatConfig == [adaptiveStep |-> FALSE, minStep |-> Zero, maxStep |-> Zero]
NoFloatArgs == [timeStep |-> Zero, totalTime |-> Zero]

\* AdaptiveStepsize.adaptiveStep (lines 203-255): nextStep of the result
RECURSIVE FP_adaptiveStep(_, _, _, _)
FP_adaptiveStep(cfg, deltaTime, iterations, rejected) ==
    IF iterations < maxIterations
    THEN IF rejected = 0
         THEN \* error 0: calculateNextStep doubles the deltaTime, changeRatio is 2
              FMax(cfg.minStep, FMin(FTwice(deltaTime), cfg.maxStep))
         ELSE IF FLt(FHalf(deltaTime), cfg.minStep) THEN cfg.minStep
         ELSE FP_adaptiveStep(cfg, FHalf(deltaTime), iterations + 1, rejected - 1)
    ELSE cfg.minStep

\* lines 32-44
FP_Call(cfg, timeStep, totalTime) ==
    /\ fp_pc \in {"idle", "done"}
    /\ fp_config' = cfg
    /\ fp_args' = [timeStep |-> timeStep, totalTime |-> totalTime]
    /\ fp_currentTime' = Zero
    /\ fp_dt' = timeStep
    /\ fp_stepCount' = 0
    /\ fp_pc' = "loop"
    /\ UNCHANGED notFp

\* lines 48-50
FP_ClampToEnd(deltaTime, now, totalTime) ==
    IF FLt(totalTime, FAdd(now, deltaTime)) THEN FSub(totalTime, now) ELSE deltaTime

\* one iteration of the loop (lines 46-75)
FP_Iterate ==
    /\ fp_pc = "loop"
    /\ FLt(fp_currentTime, fp_args.totalTime)
    /\ fp_stepCount < MaxFloatSteps
    /\ \E rejected \in Rejections :
          \E deltaTime \in {FP_ClampToEnd(fp_dt, fp_currentTime, fp_args.totalTime)} :
             \E used \in {IF fp_config.adaptiveStep
                          THEN FP_adaptiveStep(fp_config, deltaTime, 0, rejected)
                          ELSE deltaTime} :
                /\ fp_currentTime' = FAdd(fp_currentTime, used)
                /\ fp_dt' = FMax(fp_config.minStep, FMin(used, fp_config.maxStep))
    /\ fp_stepCount' = fp_stepCount + 1
    /\ UNCHANGED <<fp_pc, fp_config, fp_args, notFp>>

\* loop condition false: return
FP_Return ==
    /\ fp_pc = "loop"
    /\ ~FLt(fp_currentTime, fp_args.totalTime)
    /\ fp_pc' = "done"
    /\ UNCHANGED <<fp_config, fp_args, fp_currentTime, fp_dt, fp_stepCount, notFp>>

FpIdle ==
    /\ fp_pc = "idle"
    /\ fp_config = NoFloatConfig
    /\ fp_args = NoFloatArgs
    /\ fp_currentTime = Zero
    /\ fp_dt = Zero
    /\ fp_stepCount = 0


(***************************************************************************)
(* KeplerianPropagator.propagate and NumericalPropagator.propagate.  The   *)
(* numerical propagator hands the call to the integrate of a RungeKutta4   *)
(* built with the default configuration.                                   *)
(***************************************************************************)
NoPropagate == [timeStep |-> 0, duration |-> 0]

\* Integrator's constructor without arguments (Integrator.ts lines 12-21)
DefaultConfig ==
    [adaptiveStep |-> FALSE, minStep |-> Frac(1, 1000000), maxStep |-> R(3600),
     errorTolerance |-> Tolerance]

\* NumericalPropagator.propagate(initialState, timeStep, duration), the
\* initial state's time being 0
NP_propagate(timeStep, duration) == Integrate_Call(0, timeStep, duration)

\* KeplerianPropagator.propagate: lines 17-20, entry of the loop
KP_Call(timeStep, duration) ==
    /\ kp_pc = "idle"
    /\ kp_call' = [timeStep |-> timeStep, duration |-> duration]
    /\ kp_t' = R(0)
    /\ kp_states' = <<>>
    /\ kp_pc' = "loop"
    /\ UNCHANGED notKp

\* one pass of the loop (lines 20-29): the current state is pushed with time
\* t, then advanced by propagateStep when t < duration, then t += timeStep
KP_Sample ==
    /\ kp_pc = "loop"
    /\ RLe(kp_t, R(kp_call.duration))
    /\ kp_states' = Append(kp_states, [time |-> kp_t])
    /\ kp_t' = RAdd(kp_t, R(kp_call.timeStep))
    /\ UNCHANGED <<kp_pc, kp_call, notKp>>

\* t > duration: return states
KP_Return ==
    /\ kp_pc = "loop"
    /\ ~RLe(kp_t, R(kp_call.duration))
    /\ kp_pc' = "done"
    /\ UNCHANGED <<kp_call, kp_t, kp_states, notKp>>

KpIdle ==
    /\ kp_pc = "idle"
    /\ kp_call = NoPropagate
    /\ kp_t = R(0)
    /\ kp_states = <<>>


(***************************************************************************)
(* The private solveKeplerEquation of KeplerianPropagator, SGP4Propagator, *)
(* AnalyticalPropagator and OrbitalMechanicsSolver (used by                *)
(* trueAnomalyAtTime).  As for KeplerSolver, the correction of each Newton *)
(* iteration is an input, in units of the tolerance 1e-12.                 *)
(***************************************************************************)
PrivateSolvers == {"KeplerianPropagator", "SGP4Propagator", "AnalyticalPropagator",
                   "OrbitalMechanicsSolver"}

\* KeplerianPropagator.ts line 91: const maxIterations = 50; the others:
\* for (let i = 0; i < 10; i++)
PrivateMaxIterations(solver) == IF solver = "KeplerianPropagator" THEN 50 ELSE 10

\* the test that ends the iteration: KeplerianPropagator goes on while
\* Math.abs(deltaE) > tolerance (line 93); the others break when
\* Math.abs(deltaE) < 1e-12
PrivateStops(solver, deltaE) ==
    IF solver = "KeplerianPropagator" THEN ~RGt(RAbs(deltaE), R(1))
    ELSE RLt(RAbs(deltaE), R(1))

\* the tolerance is met by the last correction
ToleranceMet(solver, deltaE) ==
    IF solver = "KeplerianPropagator" THEN RLe(RAbs(deltaE), R(1))
    ELSE RLt(RAbs(deltaE), R(1))

\* entry: let E = M (and, in KeplerianPropagator, let deltaE = 1, which is
\* far above the tolerance)
KS_Call(solver) ==
    /\ ks_pc \in {"idle", "returned"}
    /\ ks_solver' = solver
    /\ ks_iterations' = 0
    /\ ks_deltaE' = Infinity
    /\ ks_pc' = "loop"
    /\ UNCHANGED notKs

\* one Newton iteration
KS_Newton ==
    /\ ks_pc = "loop"
    /\ ks_iterations < PrivateMaxIterations(ks_solver)
    /\ ks_iterations = 0 \/ ~PrivateStops(ks_solver, ks_deltaE)
    /\ \E deltaE \in Corrections : ks_deltaE' = deltaE
    /\ ks_iterations' = ks_iterations + 1
    /\ UNCHANGED <<ks_pc, ks_solver, notKs>>

\* the loop is left, by its test or because the iterations ran out: return E
KS_Return ==
    /\ ks_pc = "loop"
    /\ \/ ~(ks_iterations < PrivateMaxIterations(ks_solver))
       \/ ks_iterations > 0 /\ PrivateStops(ks_solver, ks_deltaE)
    /\ ks_pc' = "returned"
    /\ UNCHANGED <<ks_solver, ks_iterations, ks_deltaE, notKs>>

KsIdle ==
    /\ ks_pc = "idle"
    /\ ks_solver = "none"
    /\ ks_iterations = 0
    /\ ks_deltaE = R(0)


(***************************************************************************)
(* KeplerianPropagator.propagateStep, with the conversions it inherits     *)
(* from OrbitalPropagator.  As above, states are at an apsis with position *)
(* and velocity along coordinate axes and angles are multiples of pi/2.    *)
(* deltaTime is counted in quarters of the orbital period, so that         *)
(* n * deltaTime is deltaTime quarter turns; on an eccentric orbit only    *)
(* half periods are taken, which lead from apsis to apsis.                 *)
(***************************************************************************)
MaxPropagateSteps == 3

\* circular (a = 2, mu = 2); periapsis of e = 3/5 (a = 5, mu = 5)
BoundShapes == {[mu |-> 2, R |-> 2, V |-> 1], [mu |-> 5, R |-> 2, V |-> 2]}
BoundStates ==
    {[position |-> RVScale(RVector(t[1]), R(t[3].R)),
      velocity |-> RVScale(RVector(t[2]), R(t[3].V)),
      mu |-> R(t[3].mu), off |-> 0] :
        t \in {u \in UnitAxes \X UnitAxes \X BoundShapes :
                  u[1][1] * u[2][1] + u[1][2] * u[2][2] + u[1][3] * u[2][3] = 0}}
QuarterPeriods == {1, 2}

\* OrbitalPropagator.stateVectorToElements (lines 100-164)
OP_stateVectorToElements(state) ==
    Once(RVCross(state.position, state.velocity), LAMBDA h :
    Once(RVSub(RVScale(RVCross(state.velocity, h), RDiv(R(1), state.mu)),
               RVNormalize(state.position)), LAMBDA eVector :
    Once(RVNorm(eVector), LAMBDA eccentricity :
    Once(RVNorm(<<RSub(R(0), h[2]), h[1], R(0)>>), LAMBDA nMag :
    LET r == state.position
        v == state.velocity
        mu == state.mu
        rMag == RVNorm(r)
        vMag == RVNorm(v)
        hMag == RVNorm(h)
        energy == RSub(RDiv(RMul(vMag, vMag), R(2)), RDiv(mu, rMag))
        semiMajorAxis == RDiv(RSub(R(0), mu), RMul(R(2), energy))
        inclination == AcosClamped(RDiv(h[3], hMag))
        nVector == <<RSub(R(0), h[2]), h[1], R(0)>>
        Omega0 == AcosClamped(RDiv(nVector[1], nMag))
        longitudeOfAscendingNode ==
            IF AboveThreshold(nMag)
            THEN IF RLt(nVector[2], R(0)) THEN TwoPiMinus(Omega0) ELSE Omega0
            ELSE Angle(0)
        omega0 == AcosClamped(RDiv(RVDot(nVector, eVector), RMul(nMag, eccentricity)))
        argumentOfPeriapsis ==
            IF AboveThreshold(nMag) /\ AboveThreshold(eccentricity)
            THEN IF RLt(eVector[3], R(0)) THEN TwoPiMinus(omega0) ELSE omega0
            ELSE Angle(0)
        nu0 == AcosClamped(RDiv(RVDot(eVector, r), RMul(eccentricity, rMag)))
        trueAnomaly ==
            IF AboveThreshold(eccentricity)
            THEN IF RLt(RVDot(r, v), R(0)) THEN TwoPiMinus(nu0) ELSE nu0
            ELSE Angle(0)
    IN  [semiMajorAxis |-> semiMajorAxis, eccentricity |-> eccentricity,
         inclination |-> inclination,
         longitudeOfAscendingNode |-> longitudeOfAscendingNode,
         argumentOfPeriapsis |-> argumentOfPeriapsis,
         trueAnomaly |-> trueAnomaly, epoch |-> 0]))))

\* OrbitalPropagator.elementsToStateVector (lines 46-95): term by term the
\* formulas of OrbitalMechanicsSolver.elementsToStateVector, with this.mu
OP_elementsToStateVector(elements, mu) == elementsToStateVector(elements, mu)

\* lines 107-112 and 117-122
trueToEccentricAnomaly(nu, e) ==
    Atan2(RMul(MathSqrt(RSub(R(1), RMul(e, e))), SinQ(nu)), RAdd(e, CosQ(nu)))
eccentricToTrueAnomaly(E, e) ==
    Atan2(RMul(MathSqrt(RSub(R(1), RMul(e, e))), SinQ(E)), RSub(CosQ(E), e))

\* line 46: E0 - e * sin(E0), where e * sin(E0) = 0
MeanAnomalyOf(E0, e) == E0

\* lines 87-102: Newton from E = M; with e * sin(M) = 0 the first correction
\* is 0 and E = M is returned
KP_solveKeplerEquation(M, e) == M

\* the mean anomaly of the state is taken from its elements (lines 39-46)
propagateStep_M0(elements) ==
    MeanAnomalyOf(trueToEccentricAnomaly(elements.trueAnomaly, elements.eccentricity),
                  elements.eccentricity)
\* line 49: M = M0 + n * deltaTime
propagateStep_M(M0, deltaTime) == <<M0[1] + deltaTime, M0[2]>>

\* lines 37-70
propagateStep(state, deltaTime) ==
    Once(OP_stateVectorToElements(state), LAMBDA elements :
       Once(propagateStep_M(propagateStep_M0(elements), deltaTime), LAMBDA M :
          Once(KP_solveKeplerEquation(M, elements.eccentricity), LAMBDA E :
             Once(eccentricToTrueAnomaly(E, elements.eccentricity), LAMBDA nu :
                OP_elementsToStateVector([elements EXCEPT !.trueAnomaly = nu],
                                         state.mu)))))

\* a first call of propagateStep on a state
PS_First ==
    /\ ps_steps = 0
    /\ \E state \in BoundStates, deltaTime \in QuarterPeriods :
          /\ state.mu # R(2) => deltaTime % 2 = 0
          /\ ps_initial' = state
          /\ ps_deltaTime' = deltaTime
          /\ \E newState \in {propagateStep(state, deltaTime)} : ps_state' = newState
    /\ ps_steps' = 1
    /\ UNCHANGED notPs

\* one more call, on the state the call before returned
PS_Again ==
    /\ ps_steps > 0
    /\ ps_steps < MaxPropagateSteps
    /\ \E newState \in {propagateStep(ps_state, ps_deltaTime)} : ps_state' = newState
    /\ ps_steps' = ps_steps + 1
    /\ UNCHANGED <<ps_initial, ps_deltaTime, notPs>>

PsIdle ==
    /\ ps_initial = NoState
    /\ ps_deltaTime = 0
    /\ ps_steps = 0
    /\ ps_state = NoState


(***************************************************************************)
(* AnalyticalPropagator.propagateWithAtmosphere.  A semi-major axis is     *)
(* written as its altitude a - 6378.137 in km, the quantity the method     *)
(* works with; times are in seconds.                                       *)
(***************************************************************************)
\* line 318: drag acts below 2000 km; line 336: no decay above 1000 km;
\* line 323: the floor of 100 km
AtmosphereCeiling == 2000
DecayCeiling == 1000
AltitudeFloor == 100

\* altitudes of the semi-major axes propagated, and elapsed times
SemiMajorAltitudes == {50, 100, 200, 450, 1500, 2000, 3000}
ElapsedTimes == {0, 1000, 100000}

\* 0.001 * Math.exp(-(altitude - 200) / 50) in km/s, to two digits, at the
\* altitudes of the model
DecayRate(altitude) ==
    CASE altitude = 50 -> Frac(1, 50)
      [] altitude = 100 -> Frac(37, 5000)
      [] altitude = 200 -> Frac(1, 1000)
      [] altitude = 450 -> Frac(1, 150000)
      [] OTHER -> R(0)

\* lines 334-338
calculateDragDecay(altitude) ==
    IF altitude > DecayCeiling THEN R(0) ELSE DecayRate(altitude)

\* line 323: Math.max(newA, 6378.137 + 100)
Floored(newA) == MathMax(newA, R(AltitudeFloor))

\* lines 312-329: the elements returned
propagateWithAtmosphere(elements, deltaTime) ==
    LET altitude == elements.semiMajorAxis
    IN  IF altitude < AtmosphereCeiling
        THEN [elements EXCEPT !.semiMajorAxis =
                 Floored(RSub(R(altitude),
                              RMul(calculateDragDecay(altitude), R(deltaTime))))]
        ELSE [elements EXCEPT !.semiMajorAxis = R(altitude)]

NoAtmosphereCall ==
    [elements |-> [semiMajorAxis |-> 0, eccentricity |-> R(0)], deltaTime |-> -1,
     ret |-> [semiMajorAxis |-> R(0), eccentricity |-> R(0)]]

\* propagateElements(elements, deltaTime) in atmospheric mode (lines 254-256)
AP_propagateElements(elements, deltaTime) ==
    /\ ap_call' = [elements |-> elements, deltaTime |-> deltaTime,
                   ret |-> propagateWithAtmosphere(elements, deltaTime)]
    /\ ap_prev' = ap_call
    /\ UNCHANGED notAp

ApIdle ==
    /\ ap_call = NoAtmosphereCall
    /\ ap_prev = NoAtmosphereCall


(***************************************************************************)
(* EventManager.  An event is {type, time} with the number of the          *)
(* scheduleEvent call that queued it as its identity.  A callback either   *)
(* only receives the event ("log") or schedules one more event from        *)
(* inside the delivery ("follow").                                         *)
(***************************************************************************)
MaxEvents == 3
MaxProcessCalls == 2
MaxSubscriptions == 2

EventTypes == {"burn", "eclipse"}
EventTimes == {1, 2, 3}
ProcessTimes == {1, 3}
Callbacks == {"log", "follow"}

NoEvent == [id |-> 0, type |-> "none", time |-> 0]

\* Array.prototype.sort((a, b) => a.time - b.time): stable, ascending time
RECURSIVE SortByTime(_)
SortByTime(queue) ==
    IF queue = <<>> THEN <<>>
    ELSE LET n == Len(queue)
             sorted == SortByTime(SubSeq(queue, 1, n - 1))
             before == {i \in 1..(n - 1) : sorted[i].time <= queue[n].time}
             k == Cardinality(before)
         IN  SubSeq(sorted, 1, k) \o <<queue[n]>> \o SubSeq(sorted, k + 1, n - 1)

\* lines 9-10: push, then sort
Scheduled(queue, event) == SortByTime(Append(queue, event))

\* scheduleEvent(event), called from outside processEvents
EM_scheduleEvent(type, time) ==
    /\ em_pc \in {"idle", "returned"}
    /\ em_scheduled < MaxEvents
    /\ eventQueue' = Scheduled(eventQueue,
                               [id |-> em_scheduled + 1, type |-> type, time |-> time])
    /\ em_scheduled' = em_scheduled + 1
    /\ em_pc' = "idle"
    /\ UNCHANGED <<subscribers, em_currentTime, em_event, em_index, em_calls,
                   em_delivered, notEm>>

\* subscribe(eventType, callback), lines 13-18
EM_subscribe(eventType, callback) ==
    /\ em_pc \in {"idle", "returned"}
    /\ Len(subscribers["burn"]) + Len(subscribers["eclipse"]) < MaxSubscriptions
    /\ subscribers' = [subscribers EXCEPT ![eventType] = Append(@, callback)]
    /\ em_pc' = "idle"
    /\ UNCHANGED <<eventQueue, em_currentTime, em_event, em_index, em_calls,
                   em_scheduled, em_delivered, notEm>>

\* processEvents(currentTime): entry
EM_processEvents(now) ==
    /\ em_pc \in {"idle", "returned"}
    /\ em_calls < MaxProcessCalls
    /\ em_currentTime' = now
    /\ em_calls' = em_calls + 1
    /\ em_pc' = "loop"
    /\ UNCHANGED <<eventQueue, subscribers, em_event, em_index, em_scheduled,
                   em_delivered, notEm>>

\* lines 21-23: the head of the queue is due; shift it and enter triggerEvent
EM_Shift ==
    /\ em_pc = "loop"
    /\ Len(eventQueue) > 0
    /\ eventQueue[1].time <= em_currentTime
    /\ em_event' = eventQueue[1]
    /\ eventQueue' = Tail(eventQueue)
    /\ em_index' = 1
    /\ em_delivered' = Append(em_delivered,
                              [event |-> eventQueue[1], call |-> em_calls,
                               currentTime |-> em_currentTime, reached |-> <<>>,
                               callbacks |-> subscribers[eventQueue[1].type]])
    /\ em_pc' = "triggerEvent"
    /\ UNCHANGED <<subscribers, em_currentTime, em_calls, em_scheduled, notEm>>

\* lines 29-30: the next callback is called with the event; a "follow"
\* callback calls scheduleEvent
EM_Callback ==
    /\ em_pc = "triggerEvent"
    /\ em_index <= Len(subscribers[em_event.type])
    /\ LET callback == subscribers[em_event.type][em_index]
       IN  /\ em_delivered' = [em_delivered EXCEPT ![Len(em_delivered)].reached =
                                  Append(@, callback)]
           /\ IF callback = "follow"
              THEN /\ em_scheduled < MaxEvents
                   /\ \E type \in EventTypes, time \in EventTimes :
                         eventQueue' = Scheduled(eventQueue,
                                          [id |-> em_scheduled + 1, type |-> type,
                                           time |-> time])
                   /\ em_scheduled' = em_scheduled + 1
              ELSE UNCHANGED <<eventQueue, em_scheduled>>
    /\ em_index' = em_index + 1
    /\ UNCHANGED <<subscribers, em_pc, em_currentTime, em_event, em_calls, notEm>>

\* the for loop of triggerEvent is over: back in processEvents
EM_Triggered ==
    /\ em_pc = "triggerEvent"
    /\ em_index > Len(subscribers[em_event.type])
    /\ em_pc' = "loop"
    /\ UNCHANGED <<eventQueue, subscribers, em_currentTime, em_event, em_index,
                   em_calls, em_scheduled, em_delivered, notEm>>

\* line 21 false: processEvents returns
EM_Return ==
    /\ em_pc = "loop"
    /\ ~(Len(eventQueue) > 0 /\ eventQueue[1].time <= em_currentTime)
    /\ em_pc' = "returned"
    /\ UNCHANGED <<eventQueue, subscribers, em_currentTime, em_event, em_index,
                   em_calls, em_scheduled, em_delivered, notEm>>

EmIdle ==
    /\ eventQueue = <<>>
    /\ subscribers = [type \in EventTypes |-> <<>>]
    /\ em_pc = "idle"
    /\ em_currentTime = 0
    /\ em_event = NoEvent
    /\ em_index = 0
    /\ em_calls = 0
    /\ em_scheduled = 0
    /\ em_delivered = <<>>


(***************************************************************************)
(* CoordinateUtils.calculatePassTimes.  A satellite state is its time and  *)
(* the elevation, in degrees, at which calculateAzimuthElevation sees its  *)
(* position from the observer.  Sample k is taken at time 10 * k.          *)
(***************************************************************************)
MaxSamples == 4

Elevations == {0, 5, 10, 20}
MinElevations == {5, 10}

SatelliteStates ==
    UNION {[1..n -> Elevations] : n \in 0..MaxSamples}

StateAt(elevations, k) == [time |-> 10 * k, elevation |-> elevations[k]]

NoPass == [aos |-> 0, los |-> 0, maxElevation |-> 0, maxElevationTime |-> 0]
NoPassCall == [satelliteStates |-> <<>>, minElevation |-> 0]

\* isVisible: elevation >= minElevation
isVisible(elevation, minElevation) == elevation >= minElevation

\* calculatePassTimes(observerGeo, satelliteStates, minElevation): entry
PT_Call(elevations, minElevation) ==
    /\ pt_pc = "idle"
    /\ pt_call' = [satelliteStates |-> [k \in 1..Len(elevations) |-> StateAt(elevations, k)],
                   minElevation |-> minElevation]
    /\ passes' = <<>>
    /\ inPass' = FALSE
    /\ currentPass' = NoPass
    /\ pt_index' = 1
    /\ pt_pc' = "for"
    /\ UNCHANGED notPt

\* one pass of the for loop, lines 351-380
PT_Sample ==
    /\ pt_pc = "for"
    /\ pt_index <= Len(pt_call.satelliteStates)
    /\ LET state == pt_call.satelliteStates[pt_index]
           isVis == isVisible(state.elevation, pt_call.minElevation)
           elevation == state.elevation
       IN  IF isVis /\ ~inPass
           THEN /\ inPass' = TRUE
                /\ currentPass' = [aos |-> state.time, los |-> 0,
                                   maxElevation |-> elevation,
                                   maxElevationTime |-> state.time]
                /\ UNCHANGED passes
           ELSE IF isVis /\ inPass
           THEN /\ currentPass' =
                      IF elevation > currentPass.maxElevation
                      THEN [currentPass EXCEPT !.maxElevation = elevation,
                                               !.maxElevationTime = state.time]
                      ELSE currentPass
                /\ UNCHANGED <<inPass, passes>>
           ELSE IF ~isVis /\ inPass
           THEN /\ inPass' = FALSE
                /\ passes' = Append(passes, [currentPass EXCEPT !.los = state.time])
                /\ currentPass' = NoPass
           ELSE UNCHANGED <<inPass, currentPass, passes>>
    /\ pt_index' = pt_index + 1
    /\ UNCHANGED <<pt_pc, pt_call, notPt>>

\* line 382: return passes
PT_Return ==
    /\ pt_pc = "for"
    /\ pt_index > Len(pt_call.satelliteStates)
    /\ pt_pc' = "returned"
    /\ UNCHANGED <<pt_call, pt_index, inPass, currentPass, passes, notPt>>

PtIdle ==
    /\ pt_pc = "idle"
    /\ pt_call = NoPassCall
    /\ pt_index = 0
    /\ inPass = FALSE
    /\ currentPass = NoPass
    /\ passes = <<>>

LateIdle ==
    /\ FpIdle
    /\ PtIdle
    /\ EmIdle
    /\ ApIdle
    /\ PsIdle
    /\ KsIdle
    /\ KpIdle

\* the components added after the core ones, none of them called yet
ExtIdle ==
    /\ MrIdle
    /\ OeIdle
    /\ AlIdle
    /\ StIdle
    /\ RvIdle
    /\ LateIdle

(***************************************************************************)
(* Specifications                                                          *)
(***************************************************************************)
IntegOff ==
    /\ integrator = "none"
    /\ config = [adaptiveStep |-> FALSE, minStep |-> R(1), maxStep |-> R(1),
                 errorTolerance |-> Tolerance]
    /\ args = NoArgs
    /\ pc = "off"
    /\ currentTime = R(0)
    /\ dt = R(0)
    /\ states = <<>>
    /\ stepSizes = <<>>
    /\ errors = <<>>
    /\ stepCount = 0
    /\ totalError = R(0)

AsIdle ==
    /\ as_pc = "idle"
    /\ as_dt = R(0)
    /\ as_iterations = 0
    /\ as_ret = NoRet
    /\ as_path = "none"
    /\ warnings = 0
    /\ minStepReductions = 0
    /\ maxStepIncrements = 0


\* an integrator object after construction, no integrate call yet
InitIntegrate ==
    /\ integrator \in Classes
    /\ config \in Configs(integrator)
    /\ args = NoArgs
    /\ pc = "idle"
    /\ currentTime = R(0)
    /\ dt = R(0)
    /\ states = <<>>
    /\ stepSizes = <<>>
    /\ errors = <<>>
    /\ stepCount = 0
    /\ totalError = R(0)
    /\ AsIdle
    /\ FmOff
    /\ KepOff
    /\ ExtIdle
    /\ LamOff
    /\ ExtIdle

NextIntegrate ==
    \/ \E t0 \in {0, MaxInitialTime}, timeStep \in 1..MaxTimeStep,
          totalTime \in 0..MaxTotalTime : Integrate_Call(t0, timeStep, totalTime)
    \/ Integrate_Fixed
    \/ Integrate_Adaptive
    \/ Integrate_WrapperCall
    \/ AS_Accept
    \/ AS_Reject
    \/ AS_Fallback
    \/ Integrate_WrapperReturn
    \/ Integrate_Return

SpecIntegrate == InitIntegrate /\ [][NextIntegrate]_vars

\* an AdaptiveStepsize object whose adaptiveStep is called directly
AdaptiveLimits == {<<R(1), R(4)>>, <<R(1), R(2 * MaxDeltaTime)>>, <<R(2), R(2)>>,
                   <<R(4), R(1)>>}

InitAdaptive ==
    /\ integrator = "AdaptiveStepsize"
    /\ config \in {[adaptiveStep |-> TRUE, minStep |-> l[1], maxStep |-> l[2],
                    errorTolerance |-> Tolerance] : l \in AdaptiveLimits}
    /\ args = NoArgs
    /\ pc = "direct"
    /\ currentTime = R(0)
    /\ dt = R(0)
    /\ states = <<>>
    /\ stepSizes = <<>>
    /\ errors = <<>>
    /\ stepCount = 0
    /\ totalError = R(0)
    /\ AsIdle
    /\ FmOff
    /\ KepOff
    /\ ExtIdle
    /\ LamOff
    /\ ExtIdle

NextAdaptive ==
    \/ AS_Call
    \/ AS_Accept
    \/ AS_Reject
    \/ AS_Fallback

SpecAdaptive == InitAdaptive /\ [][NextAdaptive]_vars

\* new ForceModel(), force objects freshly constructed (enabled = true)
InitForce ==
    /\ forces = <<>>
    /\ enabled = [id \in ForceIds |-> TRUE]
    /\ enabledForces = {}
    /\ fm_ret = NoCall
    /\ IntegOff
    /\ AsIdle
    /\ KepOff
    /\ LamOff
    /\ ExtIdle

\* each force object is added to the model at most once
NextForce ==
    \/ \E id \in BasicForceIds :
          /\ \A i \in 1..Len(forces) : forces[i] # id
          /\ addForce(id)
    \/ \E n \in ForceNames, b \in BOOLEAN : toggleForce(n, b)
    \/ \E id \in BasicForceIds, b \in BOOLEAN : setEnabled(id, b)
    \/ \E altitude \in QueryAltitudes : calculateTotalAcceleration(altitude)
    \/ \E altitude \in QueryAltitudes : analyzeForceContributions(altitude)

SpecForce == InitForce /\ [][NextForce]_vars

\* a model driven through addForce and toggleForce only
InitToggle == InitForce

NextToggle ==
    \/ \E id \in BasicForceIds :
          /\ \A i \in 1..Len(forces) : forces[i] # id
          /\ addForce(id)
    \/ \E n \in ForceNames, b \in BOOLEAN : toggleForce(n, b)
    \/ getActiveForces

SpecToggle == InitToggle /\ [][NextToggle]_vars

InitKepler ==
    /\ kep_pc = "idle"
    /\ kep_call = NoKeplerCall
    /\ kep_i = 0
    /\ kep_delta = R(0)
    /\ IntegOff
    /\ AsIdle
    /\ FmOff
    /\ LamOff
    /\ ExtIdle

NextKepler ==
    \/ Kepler_Call
    \/ Kepler_Newton
    \/ Kepler_Throw

SpecKepler == InitKepler /\ [][NextKepler]_vars

InitLambert ==
    /\ lam_pc = "idle"
    /\ lam_cfg = NoLambertConfig
    /\ lam_i = 0
    /\ lam_a = R(0)
    /\ lam_converged = FALSE
    /\ lam_ap = NoAP
    /\ lam_ret = InfeasibleSolution
    /\ IntegOff
    /\ AsIdle
    /\ FmOff
    /\ KepOff
    /\ ExtIdle

NextLambert ==
    \/ Lambert_Call
    \/ Lambert_Newton
    \/ Lambert_Parameter
    \/ Lambert_Return

SpecLambert == InitLambert /\ [][NextLambert]_vars

CoreOff ==
    /\ IntegOff
    /\ AsIdle
    /\ FmOff
    /\ KepOff
    /\ LamOff

InitMultiRev ==
    /\ CoreOff
    /\ ExtIdle

NextMultiRev ==
    \/ MR_Call
    \/ MR_Solve
    \/ MR_Return

SpecMultiRev == InitMultiRev /\ [][NextMultiRev]_vars

InitElements ==
    /\ CoreOff
    /\ ExtIdle

NextElements ==
    \/ OE_Tick
    \/ OE_stateVectorToElements
    \/ OE_elementsToStateVector

SpecElements == InitElements /\ [][NextElements]_vars

InitAlias ==
    /\ CoreOff
    /\ ExtIdle

NextAlias ==
    \/ AL_Call
    \/ AL_Step
    \/ AL_Return
    \/ AL_Mutate

SpecAlias == InitAlias /\ [][NextAlias]_vars

\* an integrator object that has run some integrate calls: stepCount and
\* totalError hold what they accumulated
InitStep ==
    /\ integrator \in StepClasses
    /\ config \in Configs(integrator)
    /\ args = NoArgs
    /\ pc = "idle"
    /\ currentTime = R(0)
    /\ dt = R(0)
    /\ states = <<>>
    /\ stepSizes = <<>>
    /\ errors = <<>>
    /\ stepCount \in {0, 1}
    /\ totalError = R(stepCount)
    /\ AsIdle
    /\ FmOff
    /\ KepOff
    /\ LamOff
    /\ ExtIdle

NextStep ==
    \/ ST_Step
    \/ RKF45_Call
    \/ RKF45_Stage
    \/ RKF45_Return
    \/ ST_Reset

SpecStep == InitStep /\ [][NextStep]_vars

InitRendezvous ==
    /\ CoreOff
    /\ ExtIdle

NextRendezvous ==
    \/ RV_Call
    \/ RV_Sample
    \/ RV_Return

SpecRendezvous == InitRendezvous /\ [][NextRendezvous]_vars

InitProgress ==
    /\ CoreOff
    /\ ExtIdle

NextProgress ==
    \/ \E adaptive \in BOOLEAN, minStep \in FloatMinSteps,
          timeStep \in FloatTimeSteps, totalTime \in FloatTotalTimes :
          FP_Call([adaptiveStep |-> adaptive, minStep |-> minStep,
                   maxStep |-> FloatMaxStep], timeStep, totalTime)
    \/ FP_Iterate
    \/ FP_Return

SpecProgress == InitProgress /\ [][NextProgress]_vars

\* a NumericalPropagator and a KeplerianPropagator after construction
InitPropagate ==
    /\ integrator = "RungeKutta4"
    /\ config = DefaultConfig
    /\ args = NoArgs
    /\ pc = "idle"
    /\ currentTime = R(0)
    /\ dt = R(0)
    /\ states = <<>>
    /\ stepSizes = <<>>
    /\ errors = <<>>
    /\ stepCount = 0
    /\ totalError = R(0)
    /\ AsIdle
    /\ FmOff
    /\ KepOff
    /\ LamOff
    /\ ExtIdle

NextPropagate ==
    \/ \E timeStep \in 1..MaxTimeStep, duration \in 0..MaxTotalTime :
          NP_propagate(timeStep, duration)
    \/ Integrate_Fixed
    \/ Integrate_Return
    \/ \E timeStep \in 1..MaxTimeStep, duration \in 0..MaxTotalTime :
          KP_Call(timeStep, duration)
    \/ KP_Sample
    \/ KP_Return

SpecPropagate == InitPropagate /\ [][NextPropagate]_vars

\* an EventManager after construction
InitEvents ==
    /\ CoreOff
    /\ ExtIdle

NextEvents ==
    \/ \E type \in EventTypes, time \in EventTimes : EM_scheduleEvent(type, time)
    \/ \E type \in EventTypes, callback \in Callbacks : EM_subscribe(type, callback)
    \/ \E now \in ProcessTimes : EM_processEvents(now)
    \/ EM_Shift
    \/ EM_Callback
    \/ EM_Triggered
    \/ EM_Return

SpecEvents == InitEvents /\ [][NextEvents]_vars

\* before a call of calculatePassTimes
InitPassTimes ==
    /\ CoreOff
    /\ ExtIdle

NextPassTimes ==
    \/ \E elevations \in SatelliteStates, minElevation \in MinElevations :
          PT_Call(elevations, minElevation)
    \/ PT_Sample
    \/ PT_Return

SpecPassTimes == InitPassTimes /\ [][NextPassTimes]_vars



InitAtmosphere ==
    /\ CoreOff
    /\ ExtIdle

NextAtmosphere ==
    \E altitude \in SemiMajorAltitudes, e \in {R(0), Frac(1, 100)},
       deltaTime \in ElapsedTimes :
       AP_propagateElements([semiMajorAxis |-> altitude, eccentricity |-> e],
                            deltaTime)

SpecAtmosphere == InitAtmosphere /\ [][NextAtmosphere]_vars


InitPropagateStep ==
    /\ CoreOff
    /\ ExtIdle

NextPropagateStep ==
    \/ PS_First
    \/ PS_Again

SpecPropagateStep == InitPropagateStep /\ [][NextPropagateStep]_vars


InitPrivateKepler ==
    /\ CoreOff
    /\ ExtIdle

NextPrivateKepler ==
    \/ \E solver \in PrivateSolvers : KS_Call(solver)
    \/ KS_Newton
    \/ KS_Return

SpecPrivateKepler == InitPrivateKepler /\ [][NextPrivateKepler]_vars




\* force models of at most MaxGateForces forces of any class, queried over
\* the whole range of altitudes
MaxGateForces == 2

InitGates ==
    /\ forces = <<>>
    /\ enabled = [id \in ForceIds |-> TRUE]
    /\ enabledForces = {}
    /\ fm_ret = NoCall
    /\ IntegOff
    /\ AsIdle
    /\ KepOff
    /\ LamOff
    /\ ExtIdle

NextGates ==
    \/ \E id \in ForceIds : Len(forces) < MaxGateForces /\ addForce(id)
    \/ \E i \in 1..Len(forces), b \in BOOLEAN : setEnabled(forces[i], b)
    \/ \E altitude \in GateAltitudes : calculateTotalAcceleration(altitude)

SpecGates == InitGates /\ [][NextGates]_vars

(***************************************************************************)
(* Claims about the integrators                                            *)
(***************************************************************************)
CeilDiv(a, b) == (a + b - 1) \div b

Last(seq) == seq[Len(seq)]

\* C1: a fixed-step integrate(state0, f, dt, T) returns exactly
\* ceil(T/dt)+1 states, the first of which is state0.
C1_StateCount ==
    (pc = "done" /\ ~config.adaptiveStep) =>
        /\ Len(states) = CeilDiv(args.totalTime, args.timeStep) + 1
        /\ states[1].time = R(args.initialTime)

\* C2: for every integrator and configuration, the last state returned by
\* integrate with T > 0 has time T exactly.
C2_EndsAtTotalTime ==
    (pc = "done" /\ args.totalTime > 0) => Last(states).time = R(args.totalTime)

\* C3: the time fields of consecutive returned states never decrease.
C3_MonotonicTime ==
    pc = "done" =>
        \A i \in 1..(Len(states) - 1) : RLe(states[i].time, states[i + 1].time)

\* C5: in adaptive mode every step appended to the trajectory has an error
\* estimate <= errorTolerance.
C5_AcceptedWithinTolerance ==
    config.adaptiveStep =>
        \A i \in 1..Len(errors) : RLe(errors[i], config.errorTolerance)

\* C6: at most 10 halvings; whenever adaptiveStep gives up and returns the
\* minStep step with err > tol, a warning has been emitted before.
C6_WarnedBeforeFallback ==
    /\ as_iterations <= maxIterations
    /\ (as_pc = "returned" /\ as_path = "fallback"
          /\ RGt(as_ret.error, config.errorTolerance)) => warnings >= 1

\* the step size with which the state about to be appended was computed: the
\* deltaTime handed to a built-in adaptiveStep (line 56), or, inside
\* AdaptiveStepsize.adaptiveStep, the reduced dt of the accepted trial
\* (line 214) or minStep on the fallback (line 249)
StepUsed ==
    IF integrator # "AdaptiveStepsize"
    THEN ClampToEnd(dt, currentTime, R(args.totalTime))
    ELSE IF as_path = "accepted" THEN as_dt ELSE config.minStep

\* C26: in adaptive mode the time stamp of each appended state is the previous
\* state's time plus the step size that was used to compute that state, not
\* the step size proposed for the next iteration.
C26_StampIsStepUsed ==
    [][(/\ config.adaptiveStep
        /\ states # <<>>
        /\ Len(states') = Len(states) + 1
        /\ Last(states).time = currentTime)
          => Last(states').time = RAdd(Last(states).time, StepUsed)]_vars

\* C7: with minStep <= maxStep the returned nextStep lies in
\* [minStep, maxStep] on both return paths, and on the accepted path it is
\* the accepted step scaled by a factor in [0.1, 5], then clamped.
C7_NextStepBounds ==
    (as_pc = "returned" /\ RLe(config.minStep, config.maxStep)) =>
        /\ RLe(config.minStep, as_ret.nextStep)
        /\ RLe(as_ret.nextStep, config.maxStep)
        /\ as_path = "accepted" =>
              /\ RLe(ClampStep(config, RMul(Frac(1, 10), as_dt)), as_ret.nextStep)
              /\ RLe(as_ret.nextStep, ClampStep(config, RMul(R(5), as_dt)))

\* an accepted trial after at least one halving, proposing a step strictly
\* inside the limits
C7_Witness ==
    /\ as_pc = "returned"
    /\ as_path = "accepted"
    /\ as_iterations > 0
    /\ RLt(config.minStep, as_ret.nextStep)
    /\ RLt(as_ret.nextStep, config.maxStep)

(***************************************************************************)
(* Claims about the force model                                            *)
(***************************************************************************)
\* positions in this.forces of the forces that are enabled and applicable
EnabledApplicable(altitude) ==
    {i \in 1..Len(forces) : enabled[forces[i]] /\ isApplicable(forces[i], altitude)}

RECURSIVE VSum(_, _)
VSum(S, altitude) ==
    IF S = {} THEN <<0, 0, 0>>
    ELSE LET i == CHOOSE j \in S : TRUE
         IN  VAdd(ForceObjects[forces[i]].acc, VSum(S \ {i}, altitude))

KeplerSolvers == {"solveKeplerEquation", "solveKeplerHyperbolic"}

\* C8: solveKeplerEquation and solveKeplerHyperbolic perform at most 50
\* Newton iterations; they return only when the magnitude of the last
\* correction was below the tolerance, and otherwise raise the
\* non-convergence error after the 50th iteration.
C8_ReturnsOnlyConverged ==
    kep_call.op \in KeplerSolvers =>
       /\ kep_i <= 50
       /\ kep_pc = "returned" =>
             /\ kep_i >= 1
             /\ RLt(RAbs(kep_delta), kep_call.tolerance)
       /\ kep_pc = "NonConvergence" =>
             /\ kep_i = 50
             /\ ~RLt(RAbs(kep_delta), kep_call.tolerance)

\* both solvers raise after 50 iterations whose last correction equals the
\* tolerance
C8_Witness ==
    /\ kep_call.op = "solveKeplerHyperbolic"
    /\ kep_pc = "NonConvergence"
    /\ kep_i = 50
    /\ RAbs(kep_delta) = kep_call.tolerance

\* C9: solveKeplerHyperbolic raises the invalid-domain error for every
\* e <= 1 before any iteration and never for e > 1; meanToTrueAnomaly and
\* propagateKepler raise it exactly for e = 1.
C9_InvalidDomain ==
    /\ kep_pc = "InvalidDomain" => kep_i = 0
    /\ kep_call.op = "solveKeplerHyperbolic" =>
          /\ RLe(kep_call.eccentricity, R(1)) => kep_pc = "InvalidDomain"
          /\ RGt(kep_call.eccentricity, R(1)) => kep_pc # "InvalidDomain"
    /\ kep_call.op \in {"meanToTrueAnomaly", "propagateKepler"} =>
          (kep_pc = "InvalidDomain" <=> kep_call.eccentricity = R(1))
    /\ kep_call.op = "solveKeplerEquation" => kep_pc # "InvalidDomain"

C9_Witness ==
    /\ kep_call.op = "propagateKepler"
    /\ kep_call.eccentricity = R(1)
    /\ kep_pc = "InvalidDomain"
    /\ kep_i = 0

(***************************************************************************)
(* Claims about the Lambert solver                                         *)
(***************************************************************************)
\* C10: solve returns the sentinel solution (feasible = false, zero v1 and
\* v2, deltaV = +Infinity, empty trajectory) whenever the time of flight is
\* below the parabolic minimum or the solved a or p is not finite, every
\* solution with feasible = false is that sentinel, and every call that
\* leaves the solver does so by returning.
C10_InfeasibleIsSentinel ==
    /\ lam_pc \in {"idle", "newton", "solved", "returned"}
    /\ lam_pc = "returned" =>
          /\ RLt(lam_cfg.tof, TofMin(lam_cfg)) =>
                /\ lam_ret.feasible = FALSE
                /\ ~lam_ap.solved
          /\ (lam_ap.solved /\ (~isFinite(lam_ap.a) \/ ~isFinite(lam_ap.p))) =>
                lam_ret.feasible = FALSE
          /\ lam_ret.feasible = FALSE =>
                /\ lam_ret.v1 = <<<<0, 1>>, <<0, 1>>, <<0, 1>>>>
                /\ lam_ret.v2 = <<<<0, 1>>, <<0, 1>>, <<0, 1>>>>
                /\ lam_ret.deltaV = <<1, 0>>
                /\ lam_ret.trajectory = 0

\* a finite a with a non-finite p gives the sentinel
C10_Witness ==
    /\ lam_pc = "returned"
    /\ lam_ap.solved
    /\ isFinite(lam_ap.a)
    /\ ~isFinite(lam_ap.p)
    /\ Chord(lam_cfg) # R(0)
    /\ lam_ret = InfeasibleSolution

\* C11: when the Newton loop of solveLambertEquation uses up its 100
\* iterations without meeting the tolerance, solve returns the infeasible
\* sentinel, never a solution with feasible = true.
C11_UnconvergedIsInfeasible ==
    (lam_pc = "returned" /\ lam_ap.solved /\ ~lam_converged) =>
       /\ lam_i = 100
       /\ lam_ret.feasible = FALSE
       /\ lam_ret.v1 = <<<<0, 1>>, <<0, 1>>, <<0, 1>>>>
       /\ lam_ret.v2 = <<<<0, 1>>, <<0, 1>>, <<0, 1>>>>
       /\ lam_ret.deltaV = <<1, 0>>

\* C12: solveMultiRevolution solves once for each N = 0..Nmax and returns
\* only feasible solutions, at most Nmax + 1 of them, in non-decreasing
\* order of deltaV; findOptimalTransfer returns a feasible solution of
\* minimum deltaV, or the infeasible sentinel when there is none.
C12_SortedFeasible ==
    mr_pc = "returned" =>
       /\ mr_rev = mr_call.maxRevolutions + 1
       /\ Len(mr_solutions) <= mr_call.maxRevolutions + 1
       /\ mr_call.op = "solveMultiRevolution" =>
             /\ Len(mr_ret) = Len(mr_solutions)
             /\ \A i \in 1..Len(mr_ret) : mr_ret[i].feasible
             /\ \A i, j \in 1..Len(mr_ret) :
                   i < j => RLe(mr_ret[i].deltaV, mr_ret[j].deltaV)
       /\ mr_call.op = "findOptimalTransfer" =>
             IF Len(mr_solutions) = 0 THEN mr_ret = <<InfeasibleSolution>>
             ELSE /\ mr_ret[1].feasible
                  /\ \A i \in 1..Len(mr_solutions) :
                        RLe(mr_ret[1].deltaV, mr_solutions[i].deltaV)

(***************************************************************************)
(* Claims about the orbital elements                                       *)
(***************************************************************************)
\* C13: for a state with non-zero position and angular momentum,
\* stateVectorToElements returns an inclination in [0, pi] and a longitude
\* of ascending node, an argument of periapsis and a true anomaly in
\* [0, 2 pi), in every branch.
C13_AnglesInRange ==
    oe_call # "none" =>
       /\ AngleLe(<<0, 0>>, oe_elements.inclination)
       /\ AngleLe(oe_elements.inclination, <<2, 0>>)
       /\ \A x \in {oe_elements.longitudeOfAscendingNode,
                    oe_elements.argumentOfPeriapsis, oe_elements.trueAnomaly} :
             AngleLe(<<0, 0>>, x) /\ AngleLt(x, <<4, 0>>)

\* C15: two calls of stateVectorToElements on the same state return
\* results equal in every field, the epoch included.
C15_SameInputSameOutput ==
    (oe_call = "stateVectorToElements" /\ oe_prev.epoch >= 0) =>
       oe_elements = oe_prev

\* the state is neither circular nor equatorial nor parabolic
NonDegenerate(state, elements) ==
    /\ elements.inclination \notin {<<0, 0>>, <<2, 0>>}
    /\ elements.eccentricity \notin {R(0), R(1)}

\* C19: for a non-degenerate state s, elementsToStateVector of
\* stateVectorToElements(s) gives back the position of s within 1e-8
\* relative and its velocity within 1e-9 relative.  A difference d (in
\* nanoradians) of true anomaly at an apsis moves the position by d * 1e-9
\* relative and the velocity by d * 1e-9 / |e + cos(nu)| relative.
C19_RoundTrip ==
    (oe_call = "elementsToStateVector" /\ NonDegenerate(oe_state, oe_elements)) =>
       LET d == Abs(oe_back.off - oe_state.off)
           speed == RAbs(RAdd(oe_elements.eccentricity, CosQ(oe_elements.trueAnomaly)))
       IN  /\ oe_back.position = oe_state.position
           /\ oe_back.velocity = oe_state.velocity
           /\ d <= 10
           /\ RLe(RDiv(R(d), speed), R(1))

(***************************************************************************)
(* Claims about copies                                                     *)
(***************************************************************************)
\* C14: no state returned by integrate or propagate shares its position or
\* velocity object with the caller's initial state or with another returned
\* state: after the caller mutates some of them, the input and every
\* returned state it has not touched still hold what they held at the return.
C14_NoSharedVectors ==
    al_pc = "returned" =>
       /\ 0 \notin al_touched => Deref(al_heap, al_initial) = al_snapshot.input
       /\ \A i \in 1..Len(al_states) :
             i \notin al_touched =>
                Deref(al_heap, al_states[i]) = al_snapshot.states[i]

(***************************************************************************)
(* More claims about the force model                                       *)
(***************************************************************************)
\* C16: enabling and disabling are idempotent: right after
\* toggleForce(name, b), the same call again would leave every enabled
\* flag and the set behind getActiveForces as they are, and with them the
\* total acceleration; the same for Force.setEnabled(b).
C16_ToggleIdempotent ==
    /\ fm_ret.op = "toggleForce" =>
          /\ toggleForce_Flags(fm_ret.forceName, fm_ret.enabled) = enabled
          /\ toggleForce_Names(fm_ret.forceName, fm_ret.enabled) = enabledForces
    /\ fm_ret.op = "setEnabled" =>
          setEnabled_Flags(fm_ret.force, fm_ret.enabled) = enabled

\* a force of the model has just been switched off by name
C16_Witness ==
    /\ fm_ret.op = "toggleForce"
    /\ ~fm_ret.enabled
    /\ FindForce(fm_ret.forceName) # 0
    /\ ~enabled[FindForce(fm_ret.forceName)]
    /\ Len(forces) >= 2

\* C17: whatever the enabled flags, calculateTotalAcceleration takes no
\* atmospheric drag above 1000 km of altitude, no J2 above 100000 km, no
\* J3/J4 above 50000 km, no solar radiation pressure when area/mass is below
\* 0.001 m2/kg, and third-body gravity, from a ThirdBodyPerturbation or from
\* the third bodies inside a GravitationalForce, only above 1000 km.
C17_ApplicabilityGates ==
    fm_ret.op = "calculateTotalAcceleration" =>
       \A i \in EnabledApplicable(fm_ret.altitude) :
          LET id == forces[i]
              class == ForceObjects[id].class
          IN  /\ class = "AtmosphericDrag" => ~(fm_ret.altitude > 1000)
              /\ class = "J2Perturbation" => ~(fm_ret.altitude > 100000)
              /\ class = "J3J4Perturbation" => ~(fm_ret.altitude > 50000)
              /\ class = "SolarRadiationPressure" =>
                    ~RLt(AreaToMass(id), Frac(1, 1000))
              /\ class = "ThirdBodyPerturbation" => fm_ret.altitude > 1000
              /\ ThirdBodiesInside(id) # <<0, 0, 0>> => fm_ret.altitude > 1000

(***************************************************************************)
(* Claims about step                                                       *)
(***************************************************************************)
\* C18: step leaves the contents of its state argument (position, velocity,
\* time) and the fields stepCount, totalError and config of the integrator
\* as they were at the call; only Verlet.step sets previousAcceleration, and
\* Verlet.reset clears it together with stepCount and totalError.
C18_StepIsPure ==
    /\ st_pc \in {"step", "k"} =>
          /\ Contents(st_heap, st_state) = st_before.state
          /\ stepCount = st_before.stepCount
          /\ totalError = st_before.totalError
          /\ config = st_before.config
          /\ integrator # "Verlet" => previousAcceleration = NoAcceleration
    /\ st_pc = "reset" =>
          /\ previousAcceleration = NoAcceleration
          /\ stepCount = 0
          /\ totalError = R(0)

\* a second step, on an integrator with accumulated statistics, that moved
\* the state
C18_Witness ==
    /\ st_pc = "step"
    /\ st_calls = 2
    /\ stepCount = 1
    /\ totalError = R(1)
    /\ Contents(st_heap, st_ret) # st_before.state
    /\ st_ret.position # st_state.position

(***************************************************************************)
(* Claims about the rendezvous search                                      *)
(***************************************************************************)
\* C20: a returned rendezvousOptimization has evaluated the 101 samples
\* k = 0..100; its deltaV is the least deltaV of the feasible samples, with
\* one maneuver whose deltaV vector is v_Lambert - v_chaser placed at the
\* chaser's position, or, when there is none, optimalTime 0, deltaV
\* +Infinity and no maneuver.
C20_BestOfAllSamples ==
    rv_pc = "returned" =>
       /\ rv_count = Resolution + 1
       /\ IF rv_seen = {}
          THEN rv_ret = [optimalTime |-> Zero, deltaV |-> Infinity,
                         maneuvers |-> <<>>]
          ELSE /\ rv_ret.deltaV \in rv_seen
               /\ \A d \in rv_seen : RLe(rv_ret.deltaV, d)
               /\ Len(rv_ret.maneuvers) = 1
               /\ rv_ret.maneuvers[1].deltaV =
                     RVSub(rv_bestSolution.solution.v1, rv_call.velocity)
               /\ rv_ret.maneuvers[1].position = ChaserPosition
               /\ rv_ret.optimalTime = rv_bestSolution.time
               /\ rv_bestSolution.solution.deltaV = rv_ret.deltaV

\* C27: rendezvousOptimization evaluates at most 101 sample times, whatever
\* timeWindow >= 0 it is given (timeWindow = 0 included), and then returns.
C27_AtMost101Samples == rv_count <= Resolution + 1

(***************************************************************************)
(* Claims about the progress of integrate                                  *)
(***************************************************************************)
\* C24: with minStep > 0, dt > 0 and a finite T >= 0, every iteration of
\* integrate's loop strictly increases the accumulated time, in fixed-step
\* and in adaptive mode (and so the loop ends after finitely many steps).
C24_StrictProgress ==
    [][fp_stepCount' = fp_stepCount + 1
          => FLt(fp_currentTime, fp_currentTime')]_vars

(***************************************************************************)
(* Claims about the active forces                                          *)
(***************************************************************************)
\* C25: after any sequence of addForce and toggleForce calls,
\* getActiveForces() is exactly the set of names of the added forces whose
\* enabled flag is true, also when two added forces share a name and when
\* toggleForce names a force that was never added.
C25_ActiveForcesAreEnabledNames ==
    fm_ret.op = "getActiveForces" =>
        fm_ret.value = {ForceObjects[forces[i]].name :
                           i \in {j \in 1..Len(forces) : enabled[forces[j]]}}

(***************************************************************************)
(* Claims about the propagators                                            *)
(***************************************************************************)
\* C30: called with the same dt > 0 and T >= 0, NumericalPropagator.propagate
\* and KeplerianPropagator.propagate return the same number of samples with
\* the same time stamps (so both end at T when T is not a multiple of dt).
C30_SameTimeStamps ==
    (/\ pc = "done"
     /\ kp_pc = "done"
     /\ kp_call.timeStep = args.timeStep
     /\ kp_call.duration = args.totalTime) => kp_states = states

\* C22: no solveKeplerEquation used by a propagator or by
\* OrbitalMechanicsSolver returns its last iterate after the maximum number
\* of iterations without having met the tolerance: non-convergence is an
\* error, never a silent return.
C22_NoSilentNonConvergence ==
    ~(/\ ks_pc = "returned"
      /\ ks_iterations = PrivateMaxIterations(ks_solver)
      /\ ~ToleranceMet(ks_solver, ks_deltaE))

\* C21: on every bound orbit, circular and equatorial ones included,
\* propagateStep advances the mean anomaly by n * dt, so that k calls with dt
\* give the position and velocity of one call with k * dt.
C21_StepsCompose ==
    ps_steps > 0 =>
        \E once \in {propagateStep(ps_initial, ps_steps * ps_deltaTime)} :
           /\ ps_state.position = once.position
           /\ ps_state.velocity = once.velocity

\* C23: in atmospheric mode the elements are returned unchanged when the
\* altitude a - 6378.137 is at least 2000 km; below, for every initial a and
\* every dt >= 0, the propagated semi-major axis is at most the initial one,
\* does not increase with dt, and is at least R_earth + 100 km.
C23_MonotoneFlooredDecay ==
    ap_call.deltaTime >= 0 =>
        IF ap_call.elements.semiMajorAxis >= AtmosphereCeiling
        THEN /\ ap_call.ret.semiMajorAxis = R(ap_call.elements.semiMajorAxis)
             /\ ap_call.ret.eccentricity = ap_call.elements.eccentricity
        ELSE /\ RLe(ap_call.ret.semiMajorAxis, R(ap_call.elements.semiMajorAxis))
             /\ RLe(R(AltitudeFloor), ap_call.ret.semiMajorAxis)
             /\ (/\ ap_prev.elements = ap_call.elements
                 /\ ap_prev.deltaTime >= 0
                 /\ ap_prev.deltaTime <= ap_call.deltaTime)
                   => RLe(ap_call.ret.semiMajorAxis, ap_prev.ret.semiMajorAxis)

(***************************************************************************)
(* Claims about the event manager                                          *)
(***************************************************************************)
\* C28: whatever the interleaving of scheduleEvent, subscribe and
\* processEvents (events scheduled by a callback during processEvents
\* included), every event is delivered at most once, only by a
\* processEvents(t) with t >= event.time, in non-decreasing time order within
\* a call, to the callbacks subscribed to its type in subscription order, and
\* no event with time <= t is left in the queue when processEvents(t) returns.
C28_OrderedDelivery ==
    /\ \A i, j \in 1..Len(em_delivered) :
          em_delivered[i].event.id = em_delivered[j].event.id => i = j
    /\ \A i \in 1..Len(em_delivered) :
          em_delivered[i].currentTime >= em_delivered[i].event.time
    /\ \A i, j \in 1..Len(em_delivered) :
          (i < j /\ em_delivered[i].call = em_delivered[j].call)
             => em_delivered[i].event.time <= em_delivered[j].event.time
    /\ \A i \in 1..Len(em_delivered) :
          (i < Len(em_delivered) \/ em_pc # "triggerEvent")
             => em_delivered[i].reached = em_delivered[i].callbacks
    /\ em_pc = "returned" =>
          \A i \in 1..Len(eventQueue) : eventQueue[i].time > em_currentTime

(***************************************************************************)
(* Claims about calculatePassTimes                                         *)
(***************************************************************************)
\* the samples at which a maximal run of visible samples begins
RunStarts ==
    LET visible(k) == isVisible(pt_call.satelliteStates[k].elevation,
                                pt_call.minElevation)
    IN  {k \in 1..Len(pt_call.satelliteStates) :
            visible(k) /\ (k = 1 \/ ~visible(k - 1))}

\* C29: calculatePassTimes returns exactly one pass for every maximal run of
\* consecutive visible samples, a run still in progress at the last sample
\* included; the aos of a pass is the time of the first sample of its run and
\* aos <= maxElevationTime <= los.
C29_OnePassPerRun ==
    pt_pc = "returned" =>
        /\ Len(passes) = Cardinality(RunStarts)
        /\ {passes[i].aos : i \in 1..Len(passes)} =
              {pt_call.satelliteStates[k].time : k \in RunStarts}
        /\ \A i \in 1..Len(passes) :
              /\ passes[i].aos <= passes[i].maxElevationTime
              /\ passes[i].maxElevationTime <= passes[i].los

====
